---- MODULE Spec2Model ----
(***************************************************************************)
(* Paper-trading risk and execution engine of Autonomous-Trader.           *)
(*                                                                         *)
(* The model follows src/autonomous_trader/utils/trade_executor.py         *)
(* (PaperBroker, the "main" variant) and                                   *)
(* src/autonomous_trader_scanner_trailing/utils/trade_executor.py (the     *)
(* "scanner" variant), together with the loops that drive them.            *)
(*                                                                         *)
(* Numbers.  Python floats are modelled as exact rationals <<n, d>> with   *)
(* d > 0 in lowest terms, so that equalities the tests state "within       *)
(* floating tolerance" become exact equalities.  Absent (a missing dict    *)
(* key / None) is the pair <<0, 0>>, which is no rational.                 *)
(*                                                                         *)
(* Time.  time.time() is the variable now, counted in ticks; a UTC         *)
(* calendar day is DayLen ticks and cooldown_minutes * 60 seconds is       *)
(* cfg.cooldown_minutes ticks.                                             *)
(***************************************************************************)
EXTENDS Integers, Sequences, FiniteSets, TLC

\* ------------------------------------------------------------------------
\* Exact rational arithmetic (the model's float)
\* ------------------------------------------------------------------------
RECURSIVE GCD(_, _)
GCD(a, b) ==
    IF b = 0 THEN a ELSE GCD(b, a % b)

Abs(x) ==
    IF x < 0 THEN -x ELSE x

R(n, d) ==
    LET s == IF d < 0 THEN -1 ELSE 1
        g == GCD(Abs(n), Abs(d))
    IN  IF n = 0 THEN <<0, 1>> ELSE <<(s * n) \div g, (s * d) \div g>>

Zero ==
    <<0, 1>>

One ==
    <<1, 1>>

Absent ==
    <<0, 0>>

RAdd(a, b) ==
    R(a[1] * b[2] + b[1] * a[2], a[2] * b[2])

RNeg(a) ==
    <<-a[1], a[2]>>

RSub(a, b) ==
    RAdd(a, RNeg(b))

RMul(a, b) ==
    LET g1 == GCD(Abs(a[1]), b[2])
        g2 == GCD(Abs(b[1]), a[2])
    IN  IF a[1] = 0 \/ b[1] = 0 THEN Zero
        ELSE <<(a[1] \div g1) * (b[1] \div g2), (a[2] \div g2) * (b[2] \div g1)>>

RDiv(a, b) ==
    IF b[1] < 0 THEN RMul(a, <<-b[2], -b[1]>>) ELSE RMul(a, <<b[2], b[1]>>)

\* Sign of n1/d1 - n2/d2 for d1, d2 > 0, by comparing integer parts first and
\* then the reciprocals of the fractional parts (no large products).
RECURSIVE Cmp(_, _, _, _)
Cmp(n1, d1, n2, d2) ==
    LET q1 == n1 \div d1
        q2 == n2 \div d2
        r1 == n1 % d1
        r2 == n2 % d2
    IN  IF q1 < q2 THEN -1
        ELSE IF q1 > q2 THEN 1
        ELSE IF r1 = 0 /\ r2 = 0 THEN 0
        ELSE IF r1 = 0 THEN -1
        ELSE IF r2 = 0 THEN 1
        ELSE Cmp(d2, r2, d1, r1)

RLt(a, b) ==
    Cmp(a[1], a[2], b[1], b[2]) < 0

RLe(a, b) ==
    Cmp(a[1], a[2], b[1], b[2]) <= 0

RMax(a, b) ==
    IF RLt(a, b) THEN b ELSE a

RMin(a, b) ==
    IF RLt(b, a) THEN b ELSE a

RAbs(a) ==
    <<Abs(a[1]), a[2]>>

\* dict.get(key, default) on a value that may be missing
Get(x, default) ==
    IF x = Absent THEN default ELSE x


\* ------------------------------------------------------------------------
\* Bounds and inputs
\* ------------------------------------------------------------------------
Symbols ==
    {"AAA", "BBB"}

\* ticks per UTC calendar day
DayLen ==
    2

\* the clock stops at this tick
MaxTime ==
    5

\* successful buys and sells in one behaviour
MaxTrades ==
    4

\* time.time() at construction is far from the epoch (now >= any cooldown)
StartTime ==
    DayLen

Prices ==
    {R(10, 1), R(12, 1)}

\* prices fed to should_exit and update_trailing
TrailPrices ==
    {R(8, 1), R(11, 1), R(14, 1)}

\* successful buys and sells in one behaviour with damaged files
MaxDamageTrades ==
    2

\* trades and interrupted trades in a behaviour with crashes
MaxCrashTrades ==
    3

\* successful buys and sells in a behaviour with two writers of the whitelist
MaxWriterTrades ==
    2

\* successful buys and sells in one behaviour of the buy/sell cycle
MaxCycleTrades ==
    6

\* the capacity of the rolling PnL window; test_expectancy.py reads it from
\* the module, which defines no value; 2 tells a window from the last value
EXPECTANCY_WINDOW ==
    2

\* ------------------------------------------------------------------------
\* Configuration (config/config.json, read once at import)
\* ------------------------------------------------------------------------
\* trailing_stop.overrides[symbol]: no key overridden
NoOverride ==
    [ trail_pct            |-> Absent,
      breakeven_pct        |-> Absent,
      activate_profit_pct  |-> Absent,
      atr_trail_multiplier |-> Absent ]

\* The three integer risk parameters are always configured in the model; every
\* other key may be Absent and is then resolved by the code's default.
CfgBase ==
    [ variant                |-> "core",
      max_open_trades        |-> 2,
      max_trades_per_day     |-> 2,
      cooldown_minutes       |-> 1,
      tradable_balance_ratio |-> One,
      stake_per_trade_ratio  |-> R(1, 2),
      dry_run_wallet         |-> R(1000, 1),
      reset_balance          |-> FALSE,
      top_reset_balance      |-> FALSE,
      daily_loss_limit       |-> Absent,
      fee_pct                |-> Absent,
      slippage_pct           |-> Absent,
      atr_stop_multiplier    |-> Absent,
      symbol_loss_limit      |-> Absent,
      stop_loss_pct          |-> R(1, 5),
      take_profit_pct        |-> R(1, 2),
      trail_pct              |-> R(1, 10),
      breakeven_pct          |-> R(1, 10),
      activate_profit_pct    |-> Absent,
      atr_trail_multiplier   |-> Absent,
      overrides              |-> [s \in Symbols |-> NoOverride] ]

\* the configuration of test_core_trade_executor.py: all-in stakes
CfgAllIn ==
    [CfgBase EXCEPT !.stake_per_trade_ratio = One, !.cooldown_minutes = 0]

\* daily and per-symbol loss limits configured
CfgLimits ==
    [CfgBase EXCEPT !.daily_loss_limit = R(50, 1), !.symbol_loss_limit = R(-50, 1)]

Configs ==
    {CfgAllIn, CfgLimits}

\* the configuration of test_expectancy.py (no cooldown, 100 trades a day),
\* with all-in stakes
CfgExpectancy ==
    [CfgAllIn EXCEPT !.max_trades_per_day = 100]

\* the broker of autonomous_trader_scanner_trailing
CfgScanner ==
    [CfgBase EXCEPT !.variant = "scanner"]

TrailConfigs ==
    {CfgBase, CfgScanner}

\* reset_balance under risk, at the top level of the config, or nowhere
ResetConfigs ==
    {CfgBase,
     [CfgBase EXCEPT !.reset_balance = TRUE],
     [CfgBase EXCEPT !.top_reset_balance = TRUE]}

\* a stake ratio of zero: every sized stake is 0
CfgNoStake ==
    [CfgBase EXCEPT !.stake_per_trade_ratio = Zero]

RejectConfigs ==
    {CfgLimits, CfgNoStake}

\* a cooldown of two ticks
CfgCool ==
    [CfgBase EXCEPT !.cooldown_minutes = 2]

\* half stakes with no cooldown, with and without a symbol loss limit
StopConfigs ==
    {[CfgBase EXCEPT !.cooldown_minutes = 0],
     [CfgBase EXCEPT !.cooldown_minutes = 0, !.symbol_loss_limit = R(-100, 1)]}

\* a target of 40%, within reach of the prices watched, in both brokers
ExitConfigs ==
    {[CfgBase EXCEPT !.take_profit_pct = R(2, 5)],
     [CfgScanner EXCEPT !.take_profit_pct = R(2, 5)]}

\* fee and slippage of 5% each
CfgFee ==
    [CfgBase EXCEPT !.fee_pct = R(1, 20), !.slippage_pct = R(1, 20)]

\* the trading loop with and without trading costs
LoopConfigs ==
    {CfgBase, CfgFee}

\* all-in and half stakes, with no cooldown
StakeConfigs ==
    {CfgAllIn, [CfgBase EXCEPT !.cooldown_minutes = 0]}

\* either broker allowed one open position, with no cooldown
OpenConfigs ==
    {[CfgBase EXCEPT !.max_open_trades = 1, !.cooldown_minutes = 0],
     [CfgScanner EXCEPT !.max_open_trades = 1, !.cooldown_minutes = 0]}

\* trailing_stop.overrides for AAA alone
CfgOverride ==
    [CfgBase EXCEPT !.overrides = [s \in Symbols |->
        IF s = "AAA"
        THEN [ trail_pct            |-> R(1, 25),
               breakeven_pct        |-> R(1, 20),
               activate_profit_pct  |-> R(1, 10),
               atr_trail_multiplier |-> R(2, 1) ]
        ELSE NoOverride]]

\* an override for AAA where the base configuration has no trailing keys
CfgOverrideOnly ==
    [CfgOverride EXCEPT !.trail_pct = Absent, !.breakeven_pct = Absent]

\* no exits and no trailing_stop section: the hard-coded defaults apply
CfgBare ==
    [CfgBase EXCEPT !.stop_loss_pct = Absent, !.take_profit_pct = Absent,
                    !.trail_pct = Absent, !.breakeven_pct = Absent]

\* a symbol loss limit of 50 and no cooldown
CfgWriters ==
    [CfgBase EXCEPT !.symbol_loss_limit = R(-50, 1), !.cooldown_minutes = 0]

\* every exit and trailing key configured
CfgTrading ==
    [CfgBase EXCEPT !.activate_profit_pct = Zero]

\* the trading loop with every exit and trailing key configured, without
\* activate_profit_pct, without take_profit_pct, and with no exits and no
\* trailing_stop section
TradingConfigs ==
    {CfgTrading, CfgBase, [CfgTrading EXCEPT !.take_profit_pct = Absent], CfgBare}

\* the configuration of test_buy_defaults.py
CfgBuyDefaults ==
    [CfgAllIn EXCEPT !.stop_loss_pct = R(1, 10), !.take_profit_pct = R(1, 5),
                     !.breakeven_pct = R(3, 20), !.trail_pct = R(1, 4)]

\* the scanner broker reads no overrides: its configurations carry none
ParamConfigs ==
    {CfgBase, CfgOverride, CfgOverrideOnly, CfgBare, CfgBuyDefaults,
     CfgScanner, [CfgBare EXCEPT !.variant = "scanner"]}

\* meta dictionaries passed to buy: a key is Absent or holds a value
EmptyMeta ==
    [ stop_loss_pct         |-> Absent,
      take_profit_pct       |-> Absent,
      atr_pct               |-> Absent,
      activate_profit_pct   |-> Absent,
      breakeven_trigger_pct |-> Absent,
      trailing_stop_pct     |-> Absent,
      atr_trail_multiplier  |-> Absent ]

\* a requested stop tighter than the configured one
TightMeta ==
    [EmptyMeta EXCEPT !.stop_loss_pct = R(1, 10)]

Metas ==
    {EmptyMeta, TightMeta}

\* trailing that engages only 30% above the entry, with a percentage trail
LateMeta ==
    [EmptyMeta EXCEPT !.activate_profit_pct = R(3, 10), !.atr_trail_multiplier = Zero,
                      !.trailing_stop_pct = R(1, 20)]

TrailMetas ==
    {EmptyMeta, LateMeta}

\* requested stops: tighter and wider than the configured 20%, zero, negative
StopMetas ==
    {TightMeta,
     [EmptyMeta EXCEPT !.stop_loss_pct = R(2, 5)],
     [EmptyMeta EXCEPT !.stop_loss_pct = Zero],
     [EmptyMeta EXCEPT !.stop_loss_pct = R(-1, 10)]}

\* every key of the meta given
FullMeta ==
    [ stop_loss_pct         |-> R(1, 4),
      take_profit_pct       |-> R(3, 4),
      atr_pct               |-> R(1, 8),
      activate_profit_pct   |-> R(1, 5),
      breakeven_trigger_pct |-> R(3, 10),
      trailing_stop_pct     |-> R(1, 20),
      atr_trail_multiplier  |-> R(3, 1) ]

\* only the trailing keys of the meta given
TrailOnlyMeta ==
    [EmptyMeta EXCEPT !.breakeven_trigger_pct = R(3, 10), !.trailing_stop_pct = R(1, 20)]

ParamMetas ==
    {EmptyMeta, FullMeta, TrailOnlyMeta}

\* ------------------------------------------------------------------------
\* State
\* ------------------------------------------------------------------------
VARIABLES
    cfg,          \* CFG / RISK_CFG
    now,          \* time.time(), in ticks
    balance,      \* self.balance
    positions,    \* self.positions: symbol -> position record (open symbols only)
    cooldowns,    \* self.cooldowns: symbol -> last exit tick (0: no entry)
    symbol_pnl,   \* self.symbol_pnl: symbol -> realized PnL (0: no entry)
    daily_trades, \* self.daily_trades
    trade_day,    \* self.trade_day
    daily_pnl,    \* self.daily_pnl
    pnl_day,      \* self.pnl_day
    disk,         \* the persisted files BAL/POS/CD/PPL/TC/DP
    rw_file,      \* runtime_whitelist.json: a list of symbols
    strat,        \* a bar series, a strategy config and the signals derived
    feed,         \* the whitelist's inputs, its temp file and the lists returned
    loop,         \* the trading loop of main.py: its position and its locals
    last,         \* the call made by the last step and what it returned
    hist          \* history of the run (not program state)

vars ==
    <<cfg, now, balance, positions, cooldowns, symbol_pnl, daily_trades,
      trade_day, daily_pnl, pnl_day, disk, rw_file, strat, feed, loop, last, hist>>

\* time.strftime("%Y-%m-%d", time.gmtime())
Today ==
    now \div DayLen

\* The ledger: the broker's fields as one record, so that a handler that calls
\* another is the composition of their effects.
Ledger ==
    [ balance      |-> balance,
      positions    |-> positions,
      cooldowns    |-> cooldowns,
      symbol_pnl   |-> symbol_pnl,
      daily_trades |-> daily_trades,
      trade_day    |-> trade_day,
      daily_pnl    |-> daily_pnl,
      pnl_day      |-> pnl_day,
      disk         |-> disk,
      rw_file      |-> rw_file ]

Install(L) ==
    /\ balance' = L.balance
    /\ positions' = L.positions
    /\ cooldowns' = L.cooldowns
    /\ symbol_pnl' = L.symbol_pnl
    /\ daily_trades' = L.daily_trades
    /\ trade_day' = L.trade_day
    /\ daily_pnl' = L.daily_pnl
    /\ pnl_day' = L.pnl_day
    /\ disk' = L.disk
    /\ rw_file' = L.rw_file
    /\ strat' = strat
    /\ feed' = feed
    /\ loop' = loop

\* ---------- persistence ----------
PersistBalance(L) ==
    [L EXCEPT !.disk.balance = L.balance]

PersistPositions(L) ==
    [L EXCEPT !.disk.positions = L.positions]

PersistCooldowns(L) ==
    [L EXCEPT !.disk.cooldowns = L.cooldowns]

PersistSymbolPnl(L) ==
    [L EXCEPT !.disk.symbol_pnl = L.symbol_pnl]

PersistTradeCount(L) ==
    [L EXCEPT !.disk.trade_count = [count |-> L.daily_trades, day |-> L.trade_day]]

PersistDailyPnl(L) ==
    [L EXCEPT !.disk.daily_pnl = [pnl |-> L.daily_pnl, day |-> L.pnl_day]]


\* ---------- utils ----------
\* the cooldown compared with <= instead of <
OnCooldownInclusive(L, symbol) ==
    (now - L.cooldowns[symbol]) <= cfg.cooldown_minutes

\* _on_cooldown
OnCooldown(L, symbol) ==
    (now - L.cooldowns[symbol]) < cfg.cooldown_minutes

\* ---------- risk sizing ----------
\* can_open, lines 156-160: the trade counter rolls over on a new UTC day
RollTradeCount(L) ==
    IF Today # L.trade_day
    THEN PersistTradeCount([L EXCEPT !.trade_day = Today, !.daily_trades = 0])
    ELSE L

\* can_open, lines 161-164: the daily PnL rolls over on a new UTC day
RollDailyPnl(L) ==
    IF Today # L.pnl_day
    THEN PersistDailyPnl([L EXCEPT !.pnl_day = Today, !.daily_pnl = Zero])
    ELSE L

\* the limit compared with the wrong sign: profits block, losses do not
DailyLossBreachedSign(L) ==
    /\ cfg.daily_loss_limit # Absent
    /\ RLe(RAbs(cfg.daily_loss_limit), L.daily_pnl)

\* can_open, line 165
DailyLossBreached(L) ==
    /\ cfg.daily_loss_limit # Absent
    /\ RLe(L.daily_pnl, RNeg(RAbs(cfg.daily_loss_limit)))

\* the cap compared with > instead of >=
TradeCapReachedOffByOne(L) ==
    L.daily_trades > cfg.max_trades_per_day

\* can_open, line 168
TradeCapReached(L) ==
    L.daily_trades >= cfg.max_trades_per_day

\* the open-position cap compared with > instead of >=
MaxOpenReachedOffByOne(L) ==
    Cardinality(DOMAIN L.positions) > cfg.max_open_trades

\* can_open, line 171
MaxOpenReached(L) ==
    Cardinality(DOMAIN L.positions) >= cfg.max_open_trades

\* can_open, lines 165-174, on the rolled-over ledger
Admissible(L) ==
    /\ ~DailyLossBreached(L)
    /\ ~TradeCapReached(L)
    /\ ~MaxOpenReached(L)
    /\ RLt(Zero, RMul(L.balance, Get(cfg.tradable_balance_ratio, R(3, 4))))

\* can_open: the ledger after the call and the value returned
CanOpen(L) ==
    LET L2 == RollDailyPnl(RollTradeCount(L))
    IN  [L |-> L2, ret |-> Admissible(L2)]

\* the multiplier with losses left unscaled
PnlMultiplierNoLoss(L, symbol) ==
    IF symbol = "" THEN One
    ELSE IF RLt(Zero, L.symbol_pnl[symbol]) THEN R(3, 2)
    ELSE One

\* stake_amount, lines 178-183: the multiplier from the symbol's realized PnL
\* (symbol "" stands for no symbol given)
PnlMultiplier(L, symbol) ==
    IF symbol = "" THEN One
    ELSE IF RLt(Zero, L.symbol_pnl[symbol]) THEN R(3, 2)
    ELSE IF RLt(L.symbol_pnl[symbol], Zero) THEN R(1, 2)
    ELSE One

\* stake_amount
StakeAmount(L, symbol) ==
    LET stake == RMul(RMul(RMul(L.balance, Get(cfg.tradable_balance_ratio, R(3, 4))),
                           Get(cfg.stake_per_trade_ratio, R(1, 5))),
                      PnlMultiplier(L, symbol))
    IN  RMin(stake, L.balance)


\* ---------- trading ----------
RECURSIVE RemoveFirst(_, _)
\* list.remove(x): the list without its first x
RemoveFirst(seq, x) ==
    IF seq = <<>> THEN <<>>
    ELSE IF Head(seq) = x THEN Tail(seq)
    ELSE <<Head(seq)>> \o RemoveFirst(Tail(seq), x)

InList(seq, x) ==
    \E i \in 1..Len(seq) : seq[i] = x

\* buy, lines 194-195: the symbol's realized PnL is at or below the limit
LossLimitBreached(L, symbol) ==
    /\ cfg.symbol_loss_limit # Absent
    /\ RLe(L.symbol_pnl[symbol], cfg.symbol_loss_limit)

\* buy, line 207: the symbol has used 80% of its loss limit
NearLossLimit(L, symbol) ==
    /\ cfg.symbol_loss_limit # Absent
    /\ RLt(L.symbol_pnl[symbol], Zero)
    /\ RLe(RMul(R(4, 5), RAbs(cfg.symbol_loss_limit)), RAbs(L.symbol_pnl[symbol]))

\* buy, lines 196-203: the symbol is dropped from runtime_whitelist.json
EvictFromWhitelist(L, symbol) ==
    IF InList(L.rw_file, symbol)
    THEN [L EXCEPT !.rw_file = RemoveFirst(L.rw_file, symbol)]
    ELSE L

\* buy, line 212 (self.stop_loss_pct is exits.stop_loss_pct or 0.015)
BaseSl ==
    Get(cfg.stop_loss_pct, R(3, 200))

\* buy, line 213
SlPct(meta) ==
    Get(meta.stop_loss_pct, BaseSl)

\* the stake rescaled by sl_pct / base_sl: a tighter stop, a smaller position
RescaleForStopDirect(stake, meta) ==
    IF RLt(Zero, SlPct(meta)) /\ BaseSl # Zero
    THEN RMul(stake, RDiv(SlPct(meta), BaseSl))
    ELSE stake

\* buy, lines 214-215: the stake is rescaled by base_sl / sl_pct
RescaleForStop(stake, meta) ==
    IF RLt(Zero, SlPct(meta)) THEN RMul(stake, RDiv(BaseSl, SlPct(meta))) ELSE stake

\* buy, lines 193-208: the sized stake, halved near the loss limit
StakeBeforeRescale(L, symbol) ==
    IF NearLossLimit(L, symbol)
    THEN RMul(StakeAmount(L, symbol), R(1, 2))
    ELSE StakeAmount(L, symbol)

\* buy, lines 193-215: the stake debited when the buy goes through
BuyStake(L, symbol, meta) ==
    RescaleForStop(StakeBeforeRescale(L, symbol), meta)

\* buy, line 216 (fee and slippage inflate the entry price)
BuyAdjPrice(price) ==
    RMul(price, RAdd(One, RAdd(Get(cfg.slippage_pct, Zero), Get(cfg.fee_pct, Zero))))

\* buy, line 217
BuyQty(stake, adj_price) ==
    RMax(R(1, 100000000), RDiv(stake, RMax(adj_price, R(1, 1000000000))))

\* the base trailing configuration winning over the symbol's overrides
TrailingCfgBaseFirst(symbol) ==
    [k \in DOMAIN NoOverride |-> Get(cfg[k], cfg.overrides[symbol][k])]

\* buy, lines 221-224: the base trailing configuration with the symbol's overrides
TrailingCfg(symbol) ==
    [k \in DOMAIN NoOverride |-> Get(cfg.overrides[symbol][k], cfg[k])]

\* buy, lines 226-229
AtrPct(meta) ==
    IF meta.atr_pct # Absent THEN meta.atr_pct
    ELSE IF Get(cfg.atr_stop_multiplier, R(3, 2)) # Zero
         THEN RDiv(SlPct(meta), Get(cfg.atr_stop_multiplier, R(3, 2)))
         ELSE Absent

\* buy, lines 230-243: the position recorded
NewPosition(symbol, price, meta, qty, adj_price) ==
    [ qty                   |-> qty,
      entry                 |-> adj_price,
      peak                  |-> price,
      stop                  |-> RMul(price, RSub(One, SlPct(meta))),
      tp_price              |-> RMul(price, RAdd(One,
                                   Get(meta.take_profit_pct, Get(cfg.take_profit_pct, R(3, 500))))),
      activate_profit_pct   |-> Get(meta.activate_profit_pct,
                                    Get(TrailingCfg(symbol).activate_profit_pct, Zero)),
      breakeven_trigger_pct |-> Get(meta.breakeven_trigger_pct,
                                    Get(TrailingCfg(symbol).breakeven_pct, R(3, 1000))),
      trailing_stop_pct     |-> Get(meta.trailing_stop_pct,
                                    Get(TrailingCfg(symbol).trail_pct, Get(cfg.trail_pct, R(3, 250)))),
      atr_trail_multiplier  |-> Get(meta.atr_trail_multiplier,
                                    Get(TrailingCfg(symbol).atr_trail_multiplier, One)),
      atr_pct               |-> AtrPct(meta),
      trail_active          |-> FALSE,
      meta                  |-> meta ]

\* positions[symbol] = pos
PutPosition(ps, symbol, pos) ==
    [s \in DOMAIN ps \cup {symbol} |-> IF s = symbol THEN pos ELSE ps[s]]

\* del positions[symbol]
DelPosition(ps, symbol) ==
    [s \in DOMAIN ps \ {symbol} |-> ps[s]]

\* what buy returns when it rejects
BuyNull(L) ==
    [L |-> L, ret |-> "null", stake |-> Zero, qty |-> Zero, price |-> Zero, pnl |-> Zero]

\* buy, lines 216-246: the order goes through
BuyFill(L, symbol, price, meta) ==
    LET stake == BuyStake(L, symbol, meta)
        adj   == BuyAdjPrice(price)
        qty   == BuyQty(stake, adj)
        L1    == [L EXCEPT !.balance = RSub(L.balance, stake),
                           !.positions = PutPosition(L.positions, symbol,
                                             NewPosition(symbol, price, meta, qty, adj)),
                           !.daily_trades = L.daily_trades + 1]
    IN  [L |-> PersistTradeCount(PersistPositions(PersistBalance(L1))),
         ret |-> "ok", stake |-> stake, qty |-> qty, price |-> adj, pnl |-> Zero]

\* buy with the trade counted before the loss limit and the stake are checked
BuyCountsFirst(L, symbol, price, meta) ==
    LET c == CanOpen(L)
        n == [c.L EXCEPT !.daily_trades = c.L.daily_trades + 1]
    IN  IF ~c.ret \/ OnCooldown(c.L, symbol) THEN BuyNull(c.L)
        ELSE IF LossLimitBreached(c.L, symbol) THEN BuyNull(EvictFromWhitelist(n, symbol))
        ELSE IF RLe(StakeBeforeRescale(c.L, symbol), Zero) THEN BuyNull(n)
        ELSE BuyFill(c.L, symbol, price, meta)

\* buy
Buy(L, symbol, price, meta) ==
    LET c == CanOpen(L)
    IN  IF ~c.ret \/ OnCooldown(c.L, symbol) THEN BuyNull(c.L)
        ELSE IF LossLimitBreached(c.L, symbol) THEN BuyNull(EvictFromWhitelist(c.L, symbol))
        ELSE IF RLe(StakeBeforeRescale(c.L, symbol), Zero) THEN BuyNull(c.L)
        ELSE BuyFill(c.L, symbol, price, meta)


\* the peak overwritten with the last price
NewPeakLastPrice(pos, price) ==
    price

\* update_trailing, line 253
NewPeak(pos, price) ==
    RMax(pos.peak, price)

\* the trailing logic engaged from the first call, whatever the activation
TrailEngagedAlways(pos, price) ==
    TRUE

\* update_trailing, lines 260-264: the trailing logic is (or becomes) active
TrailEngaged(pos, price) ==
    \/ pos.trail_active
    \/ RLe(RMul(pos.entry, RAdd(One, pos.activate_profit_pct)), price)

\* the breakeven move left out
BreakevenStopNever(pos, price) ==
    pos.stop

\* update_trailing, lines 266-268: the breakeven move
BreakevenStop(pos, price) ==
    IF RLe(RMul(pos.entry, RAdd(One, pos.breakeven_trigger_pct)), price)
    THEN RMax(pos.stop, pos.entry)
    ELSE pos.stop

\* update_trailing, lines 270-275: ATR multiple, else the trailing percentage
TrailPct(pos) ==
    IF pos.atr_pct # Absent /\ pos.atr_pct # Zero /\ RLt(Zero, pos.atr_trail_multiplier)
    THEN RMul(pos.atr_pct, pos.atr_trail_multiplier)
    ELSE pos.trailing_stop_pct

\* update_trailing, lines 276-278
TrailedStop(stop, peak, t_pct) ==
    LET trail_stop == RMul(peak, RSub(One, t_pct))
    IN  IF RLt(stop, trail_stop) THEN trail_stop ELSE stop

\* update_trailing on an open position
TrailPosition(pos, price) ==
    LET p1 == [pos EXCEPT !.peak = NewPeak(pos, price)]
    IN  IF ~TrailEngaged(pos, price) THEN p1
        ELSE [p1 EXCEPT !.trail_active = TRUE,
                        !.stop = TrailedStop(BreakevenStop(pos, price), p1.peak, TrailPct(pos))]

\* update_trailing (nothing is persisted)
UpdateTrailing(L, symbol, price) ==
    IF symbol \notin DOMAIN L.positions THEN L
    ELSE [L EXCEPT !.positions[symbol] = TrailPosition(L.positions[symbol], price)]

\* should_exit with the trailing update made before the take-profit test
ShouldExitUpdateFirst(L, symbol, price) ==
    IF symbol \notin DOMAIN L.positions THEN [L |-> L, ret |-> "no_pos"]
    ELSE LET L1 == UpdateTrailing(L, symbol, price)
         IN  [L |-> L1,
              ret |-> IF RLe(L.positions[symbol].tp_price, price) THEN "tp"
                      ELSE IF RLe(price, L1.positions[symbol].stop) THEN "sl_or_trail"
                      ELSE "hold"]

\* should_exit: the ledger after the call and the reason returned
\* ("hold" stands for (False, ""))
ShouldExit(L, symbol, price) ==
    IF symbol \notin DOMAIN L.positions THEN [L |-> L, ret |-> "no_pos"]
    ELSE IF RLe(L.positions[symbol].tp_price, price) THEN [L |-> L, ret |-> "tp"]
    ELSE LET L1 == UpdateTrailing(L, symbol, price)
         IN  [L |-> L1,
              ret |-> IF RLe(price, L1.positions[symbol].stop) THEN "sl_or_trail" ELSE "hold"]

\* the exit price with fee and slippage left out
SellAdjPriceNoFee(price) ==
    price

\* sell, line 298 (fee and slippage deflate the exit price)
SellAdjPrice(price) ==
    RMul(price, RSub(RSub(One, Get(cfg.slippage_pct, Zero)), Get(cfg.fee_pct, Zero)))

\* the PnL with the quantity left out of the entry cost
SellPnlNoQty(pos, adj_price) ==
    RSub(RMul(pos.qty, adj_price), pos.entry)

\* sell, lines 299-300
SellPnl(pos, adj_price) ==
    RSub(RMul(pos.qty, adj_price), RMul(pos.qty, pos.entry))

\* sell, line 304: the symbol's recorded PnL after a trade
RecordPnl(old, pnl) ==
    RAdd(old, pnl)

\* sell
Sell(L, symbol, price) ==
    IF symbol \notin DOMAIN L.positions
    THEN [L |-> L, ret |-> "null", qty |-> Zero, price |-> Zero, pnl |-> Zero]
    ELSE LET pos == L.positions[symbol]
             adj == SellAdjPrice(price)
             pnl == SellPnl(pos, adj)
             L1  == [L EXCEPT !.balance = RAdd(L.balance, RMul(pos.qty, adj)),
                              !.positions = DelPosition(L.positions, symbol),
                              !.cooldowns[symbol] = now,
                              !.symbol_pnl[symbol] = RecordPnl(L.symbol_pnl[symbol], pnl),
                              !.daily_pnl = RAdd(L.daily_pnl, pnl)]
         IN  [L |-> PersistDailyPnl(PersistSymbolPnl(PersistCooldowns(
                        PersistPositions(PersistBalance(L1))))),
              ret |-> "ok", qty |-> pos.qty, price |-> adj, pnl |-> pnl]

\* ------------------------------------------------------------------------
\* The broker of autonomous_trader_scanner_trailing (utils/trade_executor.py);
\* it keeps balance, positions and cooldowns only
\* ------------------------------------------------------------------------
\* _on_cooldown
ScanOnCooldown(L, symbol) ==
    (now - L.cooldowns[symbol]) < cfg.cooldown_minutes

\* can_open
ScanCanOpen(L) ==
    /\ Cardinality(DOMAIN L.positions) < cfg.max_open_trades
    /\ RLt(Zero, RMul(L.balance, cfg.tradable_balance_ratio))

\* stake_amount
ScanStakeAmount(L) ==
    RMin(RMul(RMul(L.balance, cfg.tradable_balance_ratio), cfg.stake_per_trade_ratio),
         L.balance)

\* buy: the position recorded
ScanNewPosition(price, meta, qty) ==
    [ qty                   |-> qty,
      entry                 |-> price,
      peak                  |-> price,
      stop                  |-> RMul(price, RSub(One,
                                   Get(meta.stop_loss_pct, Get(cfg.stop_loss_pct, R(3, 500))))),
      tp_price              |-> RMul(price, RAdd(One,
                                   Get(meta.take_profit_pct, Get(cfg.take_profit_pct, R(3, 500))))),
      breakeven_trigger_pct |-> Get(meta.breakeven_trigger_pct,
                                    Get(cfg.breakeven_pct, R(3, 1000))),
      trailing_stop_pct     |-> Get(meta.trailing_stop_pct, Get(cfg.trail_pct, R(1, 250))),
      meta                  |-> meta ]

\* buy
ScanBuy(L, symbol, price, meta) ==
    IF ~ScanCanOpen(L) \/ ScanOnCooldown(L, symbol) THEN BuyNull(L)
    ELSE IF RLe(ScanStakeAmount(L), Zero) THEN BuyNull(L)
    ELSE LET stake == ScanStakeAmount(L)
             qty   == RMax(R(1, 100000000), RDiv(stake, RMax(price, R(1, 1000000000))))
             L1    == [L EXCEPT !.balance = RSub(L.balance, stake),
                                !.positions = PutPosition(L.positions, symbol,
                                                  ScanNewPosition(price, meta, qty))]
         IN  [L |-> PersistPositions(PersistBalance(L1)),
              ret |-> "ok", stake |-> stake, qty |-> qty, price |-> price, pnl |-> Zero]

\* update_trailing on an open position: breakeven and trail both sit behind
\* the breakeven trigger
ScanTrailPosition(pos, price) ==
    LET p1 == [pos EXCEPT !.peak = NewPeak(pos, price)]
    IN  IF RLe(RMul(pos.entry, RAdd(One, pos.breakeven_trigger_pct)), price)
        THEN [p1 EXCEPT !.stop = TrailedStop(RMax(pos.stop, pos.entry), p1.peak,
                                             pos.trailing_stop_pct)]
        ELSE p1

\* update_trailing (nothing is persisted)
ScanUpdateTrailing(L, symbol, price) ==
    IF symbol \notin DOMAIN L.positions THEN L
    ELSE [L EXCEPT !.positions[symbol] = ScanTrailPosition(L.positions[symbol], price)]

\* should_exit
ScanShouldExit(L, symbol, price) ==
    IF symbol \notin DOMAIN L.positions THEN [L |-> L, ret |-> "no_pos"]
    ELSE IF RLe(L.positions[symbol].tp_price, price) THEN [L |-> L, ret |-> "tp"]
    ELSE LET L1 == ScanUpdateTrailing(L, symbol, price)
         IN  [L |-> L1,
              ret |-> IF RLe(price, L1.positions[symbol].stop) THEN "sl_or_trail" ELSE "hold"]

\* sell
ScanSell(L, symbol, price) ==
    IF symbol \notin DOMAIN L.positions
    THEN [L |-> L, ret |-> "null", qty |-> Zero, price |-> Zero, pnl |-> Zero]
    ELSE LET pos == L.positions[symbol]
             proceeds == RMul(pos.qty, price)
             L1  == [L EXCEPT !.balance = RAdd(L.balance, proceeds),
                              !.positions = DelPosition(L.positions, symbol),
                              !.cooldowns[symbol] = now]
         IN  [L |-> PersistCooldowns(PersistPositions(PersistBalance(L1))),
              ret |-> "ok", qty |-> pos.qty, price |-> price,
              pnl |-> RSub(proceeds, RMul(pos.qty, pos.entry))]

\* _load_balance: the balance file is read unless a reset flag is set
LoadBalance(d) ==
    IF cfg.reset_balance \/ cfg.top_reset_balance
    THEN Get(cfg.dry_run_wallet, R(1000, 1))
    ELSE d.balance

\* _load_balance looking at risk.reset_balance only
LoadBalanceRiskFlagOnly(d) ==
    IF cfg.reset_balance THEN Get(cfg.dry_run_wallet, R(1000, 1)) ELSE d.balance

\* __init__ with the top-level reset flag ignored
ConstructRiskFlagOnly(d, rw) ==
    [ balance      |-> LoadBalanceRiskFlagOnly(d),
      positions    |-> d.positions,
      cooldowns    |-> d.cooldowns,
      symbol_pnl   |-> d.symbol_pnl,
      daily_trades |-> d.trade_count.count,
      trade_day    |-> d.trade_count.day,
      daily_pnl    |-> d.daily_pnl.pnl,
      pnl_day      |-> d.daily_pnl.day,
      disk         |-> [d EXCEPT !.balance = LoadBalanceRiskFlagOnly(d)],
      rw_file      |-> rw ]

\* __init__: the broker constructed from the persisted files; it persists
\* what it loaded
Construct(d, rw) ==
    [ balance      |-> LoadBalance(d),
      positions    |-> d.positions,
      cooldowns    |-> d.cooldowns,
      symbol_pnl   |-> d.symbol_pnl,
      daily_trades |-> d.trade_count.count,
      trade_day    |-> d.trade_count.day,
      daily_pnl    |-> d.daily_pnl.pnl,
      pnl_day      |-> d.daily_pnl.day,
      disk         |-> [d EXCEPT !.balance = LoadBalance(d)],
      rw_file      |-> rw ]


\* ------------------------------------------------------------------------
\* The signal generator (strategies/ai_combo_strategy.py). A bar series is
\* given by its length and by the values the indicators take on its last two
\* rows (prev_*: the row before the last; close4: close.iloc[-4]); NaN is
\* Absent. A strategy config key is Absent or holds a value.
\* ------------------------------------------------------------------------
\* the trend with the slopes of the averages left out
TrendUpLevelOnly(df) ==
    RLt(df.ema200, df.ema50)

\* line 97
TrendUp(df) ==
    /\ RLt(df.ema200, df.ema50)
    /\ RLt(df.prev_ema50, df.ema50)
    /\ RLe(df.prev_ema200, df.ema200)

\* line 100
MacdFlipUp(df) ==
    RLe(df.prev_macd_hist, Zero) /\ RLt(Zero, df.macd_hist)

\* line 101
RsiOk(df) ==
    RLe(R(50, 1), df.rsi) /\ RLe(df.rsi, R(70, 1))

\* line 102
VolOk(df) ==
    df.vol_ma # Absent /\ RLt(RMul(df.vol_ma, R(6, 5)), df.volume)

\* line 107
Breakout(df) ==
    df.hh # Absent /\ RLt(RMul(df.hh, R(1001, 1000)), df.close)

\* lines 110-115
RawScore(df) ==
    RAdd(IF TrendUp(df) THEN R(3, 5) ELSE Zero,
    RAdd(IF MacdFlipUp(df) THEN R(1, 2) ELSE Zero,
    RAdd(IF RsiOk(df) THEN R(1, 5) ELSE Zero,
    RAdd(IF Breakout(df) THEN R(2, 5) ELSE Zero,
         IF VolOk(df) THEN R(1, 5) ELSE Zero))))

\* line 118
Stretch(df) ==
    RDiv(RSub(df.close, df.ema20), df.close)

\* lines 119-122: the stretch penalty and the clamp to [0, 1.5]
Score(df) ==
    LET penalty == IF RLt(R(1, 50), Stretch(df))
                   THEN RMin(R(3, 10), RMul(Stretch(df), R(5, 1)))
                   ELSE Zero
    IN  RMax(Zero, RMin(R(3, 2), RSub(RawScore(df), penalty)))

\* a HOLD result: failed is the reason ("None": the key holds None)
Hold(score, reason) ==
    [signal |-> "HOLD", score |-> score, failed |-> reason,
     sl_pct |-> Absent, tp_pct |-> Absent]

\* a BUY result: it has no "failed" key
BuySignal(score, sl_pct, tp_pct) ==
    [signal |-> "BUY", score |-> score, failed |-> "absent",
     sl_pct |-> sl_pct, tp_pct |-> tp_pct]

\* lines 76-78
AtrInRange(df, c) ==
    /\ RLe(Get(c.min_atr_pct, R(1, 500)), df.atr_pct)
    /\ RLe(df.atr_pct, Get(c.max_atr_pct, R(3, 50)))

\* the floor applied to the last bar's volume instead of the mean
AvgVolumeLowLastBar(df, c) ==
    RLt(df.volume, Get(c.min_avg_volume, Zero))

\* lines 82-85
AvgVolumeLow(df, c) ==
    RLt(df.avg_vol, Get(c.min_avg_volume, Zero))

\* lines 89-93: the ADX gate applies when period and minimum are both truthy
AdxLow(df, c) ==
    /\ c.adx_period # Absent /\ c.adx_period # Zero
    /\ c.min_adx # Absent /\ c.min_adx # Zero
    /\ RLt(df.adx, c.min_adx)

\* line 125
MinScore(c) ==
    Get(c.buy_score_threshold, R(3, 2))

\* the decision taken without looking at the score
BuyDecisionIgnoresScore(df, c) ==
    /\ TrendUp(df)
    /\ MacdFlipUp(df) \/ Breakout(df)

\* line 126
BuyDecision(df, c) ==
    /\ TrendUp(df)
    /\ MacdFlipUp(df) \/ Breakout(df)
    /\ RLe(MinScore(c), Score(df))

\* lines 127-131
SignalSlPct(df, c) ==
    RMax(R(1, 1000), RMin(R(1, 20), RMul(df.atr_pct, Get(c.atr_stop_multiplier, R(3, 2)))))

\* line 132
SignalTpPct(df, c) ==
    RMul(SignalSlPct(df, c), Get(c.rr_ratio, R(2, 1)))

\* the reason with the momentum test ahead of the trend test
HoldReasonMomentumFirst(df, c) ==
    IF ~(MacdFlipUp(df) \/ Breakout(df)) THEN "momentum"
    ELSE IF ~TrendUp(df) THEN "trend"
    ELSE IF RLt(Score(df), MinScore(c)) THEN "score"
    ELSE "None"

\* lines 135-141
HoldReason(df, c) ==
    IF ~TrendUp(df) THEN "trend"
    ELSE IF ~(MacdFlipUp(df) \/ Breakout(df)) THEN "momentum"
    ELSE IF RLt(Score(df), MinScore(c)) THEN "score"
    ELSE "None"

\* the warmup one bar short
WarmupOffByOne(df) ==
    df.len < 59

\* line 48
Warmup(df) ==
    df.len < 60

\* generate_signal with the failure reason left out of the gate results
generate_signal_bare_gates(df, c) ==
    IF Warmup(df) THEN Hold(Zero, "warmup")
    ELSE IF ~AtrInRange(df, c) \/ AvgVolumeLow(df, c) \/ AdxLow(df, c) \/ ~VolOk(df)
         THEN [Hold(Zero, "absent") EXCEPT !.sl_pct = SignalSlPct(df, c)]
    ELSE IF BuyDecision(df, c)
         THEN BuySignal(Score(df), SignalSlPct(df, c), SignalTpPct(df, c))
    ELSE Hold(Score(df), HoldReason(df, c))

\* generate_signal
generate_signal(df, c) ==
    IF Warmup(df) THEN Hold(Zero, "warmup")
    ELSE IF ~AtrInRange(df, c) THEN Hold(Zero, "atr_range")
    ELSE IF AvgVolumeLow(df, c) THEN Hold(Zero, "avg_volume")
    ELSE IF AdxLow(df, c) THEN Hold(Zero, "adx")
    ELSE IF ~VolOk(df) THEN Hold(Zero, "volume")
    ELSE IF BuyDecision(df, c)
         THEN BuySignal(Score(df), SignalSlPct(df, c), SignalTpPct(df, c))
    ELSE Hold(Score(df), HoldReason(df, c))

\* ------------------------------------------------------------------------
\* The momentum entry (utils/momentum.py)
\* ------------------------------------------------------------------------
\* line 33
Momentum(df) ==
    RSub(RDiv(df.close, df.close4), One)

\* lines 26-31
MomentumApplies(df, base_sig, c) ==
    /\ base_sig.signal = "HOLD"
    /\ c.momentum_pct # Absent
    /\ RLt(Zero, c.momentum_pct)
    /\ df.len >= 4

\* apply_momentum_entry writing the score into the dict it was given
apply_momentum_entry_in_place(df, base_sig, c) ==
    IF MomentumApplies(df, base_sig, c)
    THEN IF RLe(c.momentum_pct, Momentum(df))
         THEN [out  |-> [signal |-> "BUY", score |-> Momentum(df), failed |-> "absent",
                         sl_pct |-> Absent, tp_pct |-> Absent],
               base |-> base_sig]
         ELSE [out  |-> [base_sig EXCEPT !.score = Momentum(df)],
               base |-> [base_sig EXCEPT !.score = Momentum(df)]]
    ELSE [out |-> base_sig, base |-> base_sig]

\* apply_momentum_entry: out is the dict returned, base the caller's dict
\* after the call
apply_momentum_entry(df, base_sig, c) ==
    IF MomentumApplies(df, base_sig, c)
    THEN IF RLe(c.momentum_pct, Momentum(df))
         THEN [out  |-> [signal |-> "BUY", score |-> Momentum(df), failed |-> "absent",
                         sl_pct |-> Absent, tp_pct |-> Absent],
               base |-> base_sig]
         ELSE [out  |-> [base_sig EXCEPT !.score = Momentum(df)],
               base |-> base_sig]
    ELSE [out |-> base_sig, base |-> base_sig]

\* ------------------------------------------------------------------------
\* Bar series and strategy configurations looked at
\* ------------------------------------------------------------------------
\* a rising, liquid series that breaks out on its last bar
DefaultBars ==
    [ len |-> 60, atr_pct |-> R(1, 50), avg_vol |-> R(2000, 1), adx |-> R(40, 1),
      ema50 |-> R(110, 1), prev_ema50 |-> R(109, 1),
      ema200 |-> R(100, 1), prev_ema200 |-> R(100, 1),
      prev_macd_hist |-> R(-1, 1), macd_hist |-> R(1, 1), rsi |-> R(60, 1),
      volume |-> R(1500, 1), vol_ma |-> R(1000, 1),
      close |-> R(100, 1), hh |-> R(99, 1), ema20 |-> R(199, 2), close4 |-> R(100, 1) ]

AtrPcts ==
    {R(1, 1000), R(1, 50), R(1, 10)}

AvgVols ==
    {R(500, 1), R(2000, 1)}

Adxs ==
    {R(20, 1), R(40, 1)}

\* ema200 non-decreasing, or falling
PrevEma200s ==
    {R(100, 1), R(101, 1)}

\* the histogram flips up, or was already positive
PrevMacdHists ==
    {R(-1, 1), R(1, 1)}

Rsis ==
    {R(60, 1), R(80, 1)}

\* volume above 1.2 x its mean, below it, or a mean that is NaN
Volumes ==
    {<<R(1500, 1), R(1000, 1)>>, <<R(1100, 1), R(1000, 1)>>, <<R(1500, 1), Absent>>}

\* <<hh, ema20>> for a close of 100: breakout or not, stretched or not
Levels ==
    {<<R(99, 1), R(199, 2)>>, <<R(101, 1), R(199, 2)>>,
     <<R(99, 1), R(90, 1)>>, <<R(99, 1), R(97, 1)>>}

\* close.iloc[-4] for a close of 100: momentum 1/49, or 1/24
Close4s ==
    {R(98, 1), R(96, 1)}

\* series past the warmup
FullBars ==
    {[DefaultBars EXCEPT !.atr_pct = a, !.avg_vol = v, !.adx = x, !.prev_ema200 = e,
                         !.prev_macd_hist = m, !.rsi = r, !.volume = vo[1],
                         !.vol_ma = vo[2], !.hh = lv[1], !.ema20 = lv[2], !.close4 = c4] :
        a \in AtrPcts, v \in AvgVols, x \in Adxs, e \in PrevEma200s, m \in PrevMacdHists,
        r \in Rsis, vo \in Volumes, lv \in Levels, c4 \in Close4s}

\* series shorter than the warmup, the empty one included
ShortBars ==
    {[DefaultBars EXCEPT !.len = n, !.close4 = c4] : n \in {0, 3, 4, 59}, c4 \in Close4s}

\* every key missing
DefaultStrategy ==
    [ buy_score_threshold |-> Absent, min_atr_pct |-> Absent, max_atr_pct |-> Absent,
      min_avg_volume |-> Absent, adx_period |-> Absent, min_adx |-> Absent,
      atr_stop_multiplier |-> Absent, rr_ratio |-> Absent, momentum_pct |-> Absent ]

Strategies ==
    {DefaultStrategy,
     [DefaultStrategy EXCEPT !.buy_score_threshold = One],
     [DefaultStrategy EXCEPT !.min_avg_volume = R(1000, 1)],
     [DefaultStrategy EXCEPT !.adx_period = R(14, 1), !.min_adx = R(25, 1)],
     [DefaultStrategy EXCEPT !.adx_period = R(14, 1), !.min_adx = R(101, 1),
                             !.min_avg_volume = R(1000, 1)],
     [DefaultStrategy EXCEPT !.buy_score_threshold = One, !.momentum_pct = R(1, 25)]}

\* thresholds a series is scored against
Thresholds ==
    {Zero, R(1, 2), One, R(13, 10), R(3, 2), R(2, 1)}

\* no signal computed yet
NoSignal ==
    [signal |-> "", score |-> Zero, failed |-> "absent", sl_pct |-> Absent, tp_pct |-> Absent]

NoStrategy ==
    [df |-> DefaultBars, scfg |-> DefaultStrategy, sig |-> NoSignal, base |-> NoSignal,
     out |-> NoSignal]

\* ------------------------------------------------------------------------
\* The whitelist: utils/data_fetchers.py reads it, utils/trending_feed.py
\* merges new symbols into runtime_whitelist.json. A file that is missing,
\* empty (zero bytes) or holds [] is the empty list <<>>: both readers treat
\* the three alike.
\* ------------------------------------------------------------------------
\* the symbols a whitelist may name; ZRO/USD is blacklisted
WlSymbols ==
    {"AAA", "BBB", "CCC", "ZRO/USD"}

\* data_fetchers.BLACKLIST, as far as the symbols of the model go
BLACKLIST ==
    {"ZRO/USD"}

\* values of symbol_pnl.json: a key may be missing, hold a number or a list
NoPnl ==
    [kind |-> "none", num |-> Zero, list |-> <<>>]

PnlNum(x) ==
    [kind |-> "num", num |-> x, list |-> <<>>]

PnlList(q) ==
    [kind |-> "list", num |-> Zero, list |-> q]

RECURSIVE RSum(_)
\* sum(val)
RSum(q) ==
    IF q = <<>> THEN Zero ELSE RAdd(Head(q), RSum(Tail(q)))

\* _expectancy taking the sum of a list instead of its mean
ExpectancySum(val) ==
    IF val.kind = "list" /\ val.list # <<>>
    THEN RSum(val.list)
    ELSE IF val.kind = "num" THEN val.num
    ELSE Zero

\* load_crypto_whitelist._expectancy
Expectancy(val) ==
    IF val.kind = "list" /\ val.list # <<>>
    THEN RDiv(RSum(val.list), R(Len(val.list), 1))
    ELSE IF val.kind = "num" THEN val.num
    ELSE Zero

RECURSIVE Filter(_, _)
\* [s for s in wl if s in keep]
Filter(wl, keep) ==
    IF wl = <<>> THEN <<>>
    ELSE IF Head(wl) \in keep THEN <<Head(wl)>> \o Filter(Tail(wl), keep)
    ELSE Filter(Tail(wl), keep)

RECURSIVE InsertDesc(_, _, _)
\* s goes behind every symbol whose key is at least its own
InsertDesc(sorted, s, pnl) ==
    IF sorted = <<>> THEN <<s>>
    ELSE IF RLt(Expectancy(pnl[Head(sorted)]), Expectancy(pnl[s]))
         THEN <<s>> \o sorted
    ELSE <<Head(sorted)>> \o InsertDesc(Tail(sorted), s, pnl)

RECURSIVE SortDesc(_, _, _)
\* wl.sort(key=expectancy, reverse=True): stable, largest first
SortDesc(done, wl, pnl) ==
    IF wl = <<>> THEN done
    ELSE SortDesc(InsertDesc(done, Head(wl), pnl), Tail(wl), pnl)

\* load_crypto_whitelist, lines 32-38: a non-empty runtime list is the input
WhitelistInput(wl, rw) ==
    IF rw # <<>> THEN rw ELSE wl

\* load_crypto_whitelist, line 47: max(0.0, pnl_threshold)
PnlFloor(min_pnl) ==
    RMax(Zero, Get(min_pnl, R(-1, 1)))

\* load_crypto_whitelist: wl is the configured whitelist, rw the runtime file,
\* perf the PnL file and min_pnl the configured whitelist_min_pnl
load_crypto_whitelist(wl, rw, perf, min_pnl) ==
    LET listed == Filter(WhitelistInput(wl, rw), WlSymbols \ BLACKLIST)
        good   == {s \in WlSymbols : RLe(PnlFloor(min_pnl), Expectancy(perf.pnl[s]))}
    IN  IF perf.exists THEN SortDesc(<<>>, Filter(listed, good), perf.pnl)
        ELSE listed

\* sym.strip().upper() on the strings of the model
StripUpper(sym) ==
    CASE sym = "aaa"   -> "AAA"
      [] sym = " bbb " -> "BBB"
      [] sym = " "     -> ""
      [] OTHER         -> sym

RECURSIVE Merge(_, _, _)
\* update_runtime_whitelist, lines 52-60: the loop over new_syms + existing
Merge(merged, syms, max_symbols) ==
    IF syms = <<>> THEN merged
    ELSE LET s  == StripUpper(Head(syms))
             m2 == IF s # "" /\ ~InList(merged, s) THEN Append(merged, s) ELSE merged
         IN  IF Len(m2) >= max_symbols THEN m2
             ELSE Merge(m2, Tail(syms), max_symbols)

\* runtime_whitelist.json between open(RW_PATH, "w") and the end of json.dump
\* (trade_executor.py lines 199-200): empty or cut short, no JSON document
Torn ==
    <<"<torn>">>

\* update_runtime_whitelist, lines 45-50: json.load raises on a file that is
\* no JSON document and the existing list is taken as empty
ReadRuntime(file) ==
    IF file = Torn THEN <<>> ELSE file

\* feed: the configured whitelist and whitelist_min_pnl, the PnL file, the
\* temp file of the writer, the writer's position ("idle" or "replace": the
\* temp file is written and not yet renamed), the arguments of the last
\* update and the list it returned, and the list the last load returned
NoFeed ==
    [ wl |-> <<>>, min_pnl |-> Absent,
      perf |-> [exists |-> FALSE, pnl |-> [s \in WlSymbols |-> NoPnl]],
      tmp |-> <<>>, pc |-> "idle", new_syms |-> <<>>, max_symbols |-> 0,
      existing |-> <<>>, merged |-> <<>>, loaded |-> <<>> ]

\* config "whitelist"
ConfiguredWhitelists ==
    {<<"AAA", "BBB", "CCC">>, <<"CCC", "ZRO/USD", "BBB", "AAA">>}

\* runtime_whitelist.json when the process starts
RuntimeFiles ==
    {<<>>, <<"BBB", "ZRO/USD", "CCC">>}

\* symbol_pnl.json: missing; the lists of test_expectancy.py (AAA for GOOD,
\* BBB for BAD); the numbers the broker writes
PerfFiles ==
    {[exists |-> FALSE, pnl |-> [s \in WlSymbols |-> NoPnl]],
     [exists |-> TRUE,
      pnl |-> [s \in WlSymbols |->
                 CASE s = "AAA" -> PnlList(<<R(1, 1), R(-1, 2), R(2, 1)>>)
                   [] s = "BBB" -> PnlList(<<R(-1, 1), R(-1, 1), R(-1, 1)>>)
                   [] s = "CCC" -> PnlList(<<R(3, 1), R(-1, 1)>>)
                   [] OTHER -> NoPnl]],
     [exists |-> TRUE,
      pnl |-> [s \in WlSymbols |->
                 CASE s = "AAA" -> PnlNum(R(1, 4))
                   [] s = "BBB" -> PnlNum(R(2, 1))
                   [] s = "CCC" -> PnlList(<<>>)
                   [] OTHER -> PnlNum(R(5, 1))]]}

\* config "whitelist_min_pnl"
MinPnls ==
    {Absent, R(1, 2)}

\* new_syms of update_runtime_whitelist
NewSymLists ==
    {<<>>, <<"aaa", "AAA">>, <<" bbb ", " ", "CCC">>}

\* max_symbols of update_runtime_whitelist (20: the default)
MaxSymbolsValues ==
    {0, 1, 2, 20}

\* ------------------------------------------------------------------------
\* The trading loop (main.py, trading_loop)
\* ------------------------------------------------------------------------
\* a key that is present and holds None
None ==
    <<1, 0>>

\* dict.get(key) without a default: None for a missing key
GetOrNone(x) ==
    IF x = Absent THEN None ELSE x

\* get_exit_cfg, lines 121-131, and the meta the loop passes to buy, lines
\* 241-249: every key is present (score and trailing_enable are not read by buy)
LoopMeta ==
    [ EmptyMeta EXCEPT !.take_profit_pct       = GetOrNone(cfg.take_profit_pct),
                       !.stop_loss_pct         = GetOrNone(cfg.stop_loss_pct),
                       !.breakeven_trigger_pct = GetOrNone(cfg.breakeven_pct),
                       !.trailing_stop_pct     = GetOrNone(cfg.trail_pct),
                       !.activate_profit_pct   = GetOrNone(cfg.activate_profit_pct) ]

\* what a call returns when it raises TypeError with the ledger left as L
Raised(L) ==
    [BuyNull(L) EXCEPT !.ret = "TypeError"]

\* buy with meta values that may be None: "sl_pct > 0" (line 214) raises
\* before anything is changed, "price * (1 + tp_pct)" (line 235) after the
\* stake was taken off the balance (line 218); the trailing values are stored
\* as they are
BuyOrRaise(L, symbol, price, meta) ==
    LET c == CanOpen(L)
    IN  IF Buy(L, symbol, price, EmptyMeta).ret # "ok" THEN Buy(L, symbol, price, EmptyMeta)
        ELSE IF meta.stop_loss_pct = None THEN Raised(c.L)
        ELSE IF meta.take_profit_pct = None
             THEN Raised([c.L EXCEPT !.balance = RSub(c.L.balance, BuyStake(c.L, symbol, meta))])
        ELSE Buy(L, symbol, price, meta)

\* should_exit on a position whose trailing values may be None: update_trailing
\* raises at "entry * (1 + activate_pct)" (line 261), at
\* "entry * (1 + trigger_pct)" (line 267) or at "1 - t_pct" (line 276), with
\* what it had changed until then
ShouldExitOrRaise(L, symbol, price) ==
    LET pos    == L.positions[symbol]
        peaked == [pos EXCEPT !.peak = NewPeak(pos, price)]
        atr    == pos.atr_pct # Absent /\ pos.atr_pct # Zero /\ RLt(Zero, pos.atr_trail_multiplier)
    IN  IF RLe(pos.tp_price, price) THEN ShouldExit(L, symbol, price)
        ELSE IF ~pos.trail_active /\ pos.activate_profit_pct = None
             THEN [L |-> [L EXCEPT !.positions[symbol] = peaked], ret |-> "TypeError"]
        ELSE IF ~TrailEngaged(pos, price) THEN ShouldExit(L, symbol, price)
        ELSE IF pos.breakeven_trigger_pct = None
             THEN [L |-> [L EXCEPT !.positions[symbol] =
                                      [peaked EXCEPT !.trail_active = TRUE]],
                   ret |-> "TypeError"]
        ELSE IF ~atr /\ pos.trailing_stop_pct = None
             THEN [L |-> [L EXCEPT !.positions[symbol] =
                                      [peaked EXCEPT !.trail_active = TRUE,
                                                     !.stop = BreakevenStop(pos, price)]],
                   ret |-> "TypeError"]
        ELSE ShouldExit(L, symbol, price)

\* the markets of the exchange (filter_supported_symbols)
Supported ==
    {"AAA", "BBB", "CCC"}

\* data_feeds.symbols / trade_universe, as _symbols_from_cfg_as_slash gives them
TradeUniverse ==
    <<"AAA", "BBB">>

\* symbol_pnl.json as load_crypto_whitelist reads it: the file the broker
\* persists, one number per symbol
PerfOf(d) ==
    [exists |-> TRUE,
     pnl |-> [s \in WlSymbols |-> IF s \in Symbols THEN PnlNum(d.symbol_pnl[s]) ELSE NoPnl]]

\* filter_supported_symbols(EXCHANGE, load_crypto_whitelist())
ScannerSyms(L) ==
    Filter(load_crypto_whitelist(feed.wl, L.rw_file, PerfOf(L.disk), feed.min_pnl), Supported)

RECURSIVE Dedupe(_, _)
\* lines 169-172: the first occurrence of each symbol is kept
Dedupe(merged, syms) ==
    IF syms = <<>> THEN merged
    ELSE Dedupe(IF InList(merged, Head(syms)) THEN merged ELSE Append(merged, Head(syms)),
                Tail(syms))

\* seq[:n]
Take(seq, n) ==
    SubSeq(seq, 1, IF Len(seq) < n THEN Len(seq) ELSE n)

\* lines 140-146: the list the loop starts with
BootList(L) ==
    IF ScannerSyms(L) # <<>> THEN ScannerSyms(L) ELSE Take(TradeUniverse, 5)

\* lines 158-176: the runtime list first, then the scanner's, capped at
\* scanner.max_symbols (20 by default); an empty merge keeps the list
ActiveList(L, wl) ==
    LET merged_syms == Dedupe(<<>>, L.rw_file \o ScannerSyms(L))
    IN  IF merged_syms # <<>> THEN Take(merged_syms, 20) ELSE wl

\* loop.pc: "boot" before the loop is entered, "merge" at the top of an
\* iteration, "scan" inside "for sym in wl[:50]" at index loop.idx, "dead"
\* once an exception has ended the thread; loop.market and loop.bars: the
\* price (None: no price) and the candles each symbol has in this iteration;
\* loop.sig: the signal generated last. When buy is called directly, loop.pc
\* is "evict_open" once buy has read the runtime whitelist and taken its
\* symbol off the list (loop.wl), "evict_dump" once it has opened the file
\* for writing, and "boot" when no call is under way; loop.evicted is the
\* symbol buy took off the whitelist last
NoLoop ==
    [ pc |-> "boot", wl |-> <<>>, idx |-> 0, evicted |-> "",
      market |-> [s \in Symbols |-> None],
      bars |-> [s \in Symbols |-> DefaultBars],
      sig |-> NoSignal ]

\* prices of one iteration, the same for every symbol: none, or 8, 10 or 15
Markets ==
    {[s \in Symbols |-> p] : p \in {None, R(8, 1), R(10, 1), R(15, 1)}}

\* candles of one iteration: a series that gives BUY, and no candles
LoopBars ==
    {DefaultBars, [DefaultBars EXCEPT !.len = 0]}

\* what the trending thread finds: BBB alone
TrendingLists ==
    {<<" bbb ">>}

\* ------------------------------------------------------------------------
\* Initial state: the broker constructed with no persisted files
\* ------------------------------------------------------------------------
NoPositions ==
    [s \in {} |-> Zero]

\* the defaults of the _load_* methods, as __init__ persists them
FreshDisk(c) ==
    [ balance     |-> Get(c.dry_run_wallet, R(1000, 1)),
      positions   |-> NoPositions,
      cooldowns   |-> [s \in Symbols |-> 0],
      symbol_pnl  |-> [s \in Symbols |-> Zero],
      trade_count |-> [count |-> 0, day |-> StartTime \div DayLen],
      daily_pnl   |-> [pnl |-> Zero, day |-> StartTime \div DayLen] ]

\* the persisted files of the core broker
FileNames ==
    {"balance", "positions", "cooldowns", "symbol_pnl", "trade_count", "daily_pnl"}

\* every file is there and parses
AllOk ==
    [f \in FileNames |-> "ok"]

\* what __init__ finds: every file readable, one file missing or unparsable,
\* or at most one file left
FileStates ==
    {st \in [FileNames -> {"ok", "missing", "corrupt"}] :
        \/ Cardinality({f \in FileNames : st[f] # "ok"}) <= 1
        \/ /\ \A f \in FileNames : st[f] # "corrupt"
           /\ Cardinality({f \in FileNames : st[f] = "ok"}) <= 1}

\* _load_balance, lines 68-76: os.path.exists is false for a missing file and
\* float() raises on an unparsable one; both end at the wallet default
LoadBalanceFile(d, st) ==
    IF st["balance"] = "ok" THEN LoadBalance(d) ELSE Get(cfg.dry_run_wallet, R(1000, 1))

\* _load_positions, lines 78-84
LoadPositions(d, st) ==
    IF st["positions"] = "ok" THEN d.positions ELSE NoPositions

\* _load_cooldowns, lines 86-92
LoadCooldowns(d, st) ==
    IF st["cooldowns"] = "ok" THEN d.cooldowns ELSE [s \in Symbols |-> 0]

\* _load_symbol_pnl, lines 94-100
LoadSymbolPnl(d, st) ==
    IF st["symbol_pnl"] = "ok" THEN d.symbol_pnl ELSE [s \in Symbols |-> Zero]

\* the trade count read whatever the state of its file
LoadTradeCountAnyway(d, st) ==
    d.trade_count

\* _load_trade_count, lines 102-110
LoadTradeCount(d, st) ==
    IF st["trade_count"] = "ok" THEN d.trade_count ELSE [count |-> 0, day |-> Today]

\* _load_daily_pnl, lines 112-120
LoadDailyPnl(d, st) ==
    IF st["daily_pnl"] = "ok" THEN d.daily_pnl ELSE [pnl |-> Zero, day |-> Today]

\* __init__ when the files are in state st: each component is loaded by its
\* own _load_*, then all six are persisted
ConstructFrom(d, st, rw) ==
    LET loaded == [ balance     |-> LoadBalanceFile(d, st),
                    positions   |-> LoadPositions(d, st),
                    cooldowns   |-> LoadCooldowns(d, st),
                    symbol_pnl  |-> LoadSymbolPnl(d, st),
                    trade_count |-> LoadTradeCount(d, st),
                    daily_pnl   |-> LoadDailyPnl(d, st) ]
    IN  [ balance      |-> loaded.balance,
          positions    |-> loaded.positions,
          cooldowns    |-> loaded.cooldowns,
          symbol_pnl   |-> loaded.symbol_pnl,
          daily_trades |-> loaded.trade_count.count,
          trade_day    |-> loaded.trade_count.day,
          daily_pnl    |-> loaded.daily_pnl.pnl,
          pnl_day      |-> loaded.daily_pnl.day,
          disk         |-> loaded,
          rw_file      |-> rw ]

\* last: the operation called by the last step, its symbol, what it returned,
\* and for an order that went through its price argument and the quantity,
\* effective price and PnL of the returned order; for a construction, the
\* state its files were in
NoCall ==
    [ op |-> "init", sym |-> "", ret |-> "", arg |-> Zero,
      qty |-> Zero, price |-> Zero, pnl |-> Zero, files |-> AllOk ]

Call(op, sym, ret) ==
    [NoCall EXCEPT !.op = op, !.sym = sym, !.ret = ret]

Order(op, sym, arg, r) ==
    IF r.ret = "ok"
    THEN [op |-> op, sym |-> sym, ret |-> "ok", arg |-> arg,
          qty |-> r.qty, price |-> r.price, pnl |-> r.pnl, files |-> AllOk]
    ELSE Call(op, sym, r.ret)

\* hist.trades: buys and sells that went through; hist.buys: the buys that went
\* through on day hist.buys_day; hist.sold: the PnL of the sells on day
\* hist.sold_day; hist.pnl_log[s]: the PnL of every sell of s, oldest first;
\* hist.breach_day: the last day on which the day's PnL was seen at or below
\* the daily loss limit (0: never); hist.sold_at[s]: the time of the last sell
\* of s (-1: never sold); hist.closed: the position the trading loop sold
\* last, as it was when should_exit had decided.
NoHist ==
    [ trades   |-> 0,
      sold_at  |-> [s \in Symbols |-> -1],
      breach_day |-> 0,
      buys     |-> 0,
      buys_day |-> 0,
      sold     |-> Zero,
      sold_day |-> 0,
      pnl_log  |-> [s \in Symbols |-> <<>>],
      closed   |-> [sym |-> "", qty |-> Zero, entry |-> Zero, stop |-> Zero] ]

BrokerInit(c) ==
    /\ cfg = c
    /\ now = StartTime
    /\ balance = Get(c.dry_run_wallet, R(1000, 1))
    /\ positions = NoPositions
    /\ cooldowns = [s \in Symbols |-> 0]
    /\ symbol_pnl = [s \in Symbols |-> Zero]
    /\ daily_trades = 0
    /\ trade_day = StartTime \div DayLen
    /\ daily_pnl = Zero
    /\ pnl_day = StartTime \div DayLen
    /\ disk = FreshDisk(c)
    /\ rw_file = <<"AAA", "BBB">>
    /\ feed = NoFeed
    /\ loop = NoLoop
    /\ last = NoCall
    /\ hist = NoHist

\* the broker alone: no bar series is looked at
InitWith(c) ==
    /\ BrokerInit(c)
    /\ strat = NoStrategy

Init ==
    \E c \in Configs : InitWith(c)

\* ------------------------------------------------------------------------
\* Actions: one per call on the broker
\* ------------------------------------------------------------------------
HistBuy(h) ==
    [h EXCEPT !.trades = h.trades + 1,
              !.buys = IF h.buys_day = Today THEN h.buys + 1 ELSE 1,
              !.buys_day = Today]

HistSell(h, symbol, pnl) ==
    [h EXCEPT !.trades = h.trades + 1,
              !.sold = IF h.sold_day = Today THEN RAdd(h.sold, pnl) ELSE pnl,
              !.sold_day = Today,
              !.sold_at[symbol] = now,
              !.pnl_log[symbol] = Append(h.pnl_log[symbol], pnl)]

\* the daily loss limit is breached today in ledger L
Observe(h, L) ==
    IF DailyLossBreached(L) /\ L.pnl_day = Today
    THEN [h EXCEPT !.breach_day = Today]
    ELSE h

\* a buy whose result is r, in a behaviour of at most bound trades
Bought(r, symbol, price, bound) ==
    /\ r.ret = "ok" => hist.trades < bound
    /\ Install(r.L)
    /\ last' = Order("buy", symbol, price, r)
    /\ hist' = Observe(IF r.ret = "ok" THEN HistBuy(hist) ELSE hist, r.L)
    /\ UNCHANGED <<cfg, now>>

\* a sell whose result is r, in a behaviour of at most bound trades
Sold(r, symbol, price, bound) ==
    /\ r.ret = "ok" => hist.trades < bound
    /\ Install(r.L)
    /\ last' = Order("sell", symbol, price, r)
    /\ hist' = Observe(IF r.ret = "ok" THEN HistSell(hist, symbol, r.pnl) ELSE hist, r.L)
    /\ UNCHANGED <<cfg, now>>

\* a should_exit or update_trailing call that leaves ledger L
Watched(op, L, symbol, price, ret) ==
    /\ Install(L)
    /\ last' = [Call(op, symbol, ret) EXCEPT !.arg = price]
    /\ UNCHANGED <<cfg, now, hist>>

BuyCall(symbol, price, meta) ==
    Bought(Buy(Ledger, symbol, price, meta), symbol, price, MaxTrades)

SellCall(symbol, price) ==
    Sold(Sell(Ledger, symbol, price), symbol, price, MaxTrades)

\* the loop of test_symbol_pnl_rolling_window
CycleBuyCall(symbol, price) ==
    Bought(Buy(Ledger, symbol, price, EmptyMeta), symbol, price, MaxCycleTrades)

CycleSellCall(symbol, price) ==
    Sold(Sell(Ledger, symbol, price), symbol, price, MaxCycleTrades)

ShouldExitCall(symbol, price) ==
    LET r == ShouldExit(Ledger, symbol, price)
    IN  Watched("should_exit", r.L, symbol, price, r.ret)

UpdateTrailingCall(symbol, price) ==
    Watched("update_trailing", UpdateTrailing(Ledger, symbol, price), symbol, price, "")

ScanBuyCall(symbol, price, meta) ==
    Bought(ScanBuy(Ledger, symbol, price, meta), symbol, price, MaxTrades)

ScanSellCall(symbol, price) ==
    Sold(ScanSell(Ledger, symbol, price), symbol, price, MaxTrades)

ScanShouldExitCall(symbol, price) ==
    LET r == ScanShouldExit(Ledger, symbol, price)
    IN  Watched("should_exit", r.L, symbol, price, r.ret)

ScanUpdateTrailingCall(symbol, price) ==
    Watched("update_trailing", ScanUpdateTrailing(Ledger, symbol, price), symbol, price, "")

\* stake_amount(symbol), or stake_amount() for symbol ""; the stake returned is
\* kept in last.price
StakeAmountCall(symbol) ==
    /\ Install(Ledger)
    /\ last' = [Call("stake_amount", symbol, "") EXCEPT !.price = StakeAmount(Ledger, symbol)]
    /\ UNCHANGED <<cfg, now, hist>>

\* main.py, lines 210-217: the trading loop meets an open position at a price;
\* it asks should_exit and, on an exit decision, sells at that price
LoopExitCall(symbol, price) ==
    LET r   == ShouldExit(Ledger, symbol, price)
        out == r.ret \in {"tp", "sl_or_trail"}
        q   == Sell(r.L, symbol, price)
        pos == r.L.positions[symbol]
    IN  /\ symbol \in DOMAIN positions
        /\ out => hist.trades < MaxTrades
        /\ Install(IF out THEN q.L ELSE r.L)
        /\ last' = IF out
                   THEN [op |-> "loop_exit", sym |-> symbol, ret |-> r.ret, arg |-> price,
                         qty |-> q.qty, price |-> q.price, pnl |-> q.pnl,
                         files |-> AllOk]
                   ELSE [Call("loop_exit", symbol, r.ret) EXCEPT !.arg = price]
        /\ hist' = IF out
                   THEN Observe([HistSell(hist, symbol, q.pnl) EXCEPT
                                    !.closed = [sym |-> symbol, qty |-> pos.qty,
                                                entry |-> pos.entry, stop |-> pos.stop]],
                                q.L)
                   ELSE hist
        /\ UNCHANGED <<cfg, now>>

\* lines 133-150: the thread has its broker and takes its first list
LoopBoot ==
    /\ loop.pc = "boot"
    /\ loop' = [loop EXCEPT !.pc = "merge", !.wl = BootList(Ledger)]
    /\ last' = Call("loop_boot", "", "")
    /\ UNCHANGED <<cfg, now, balance, positions, cooldowns, symbol_pnl, daily_trades,
                   trade_day, daily_pnl, pnl_day, disk, rw_file, strat, feed, hist>>

\* lines 155-176: the top of an iteration; the active list is merged from
\* the files, and the market shows market and bars during this iteration
LoopMerge(market, bars) ==
    /\ loop.pc = "merge"
    /\ loop' = [loop EXCEPT !.pc = "scan", !.wl = ActiveList(Ledger, loop.wl), !.idx = 1,
                            !.market = market, !.bars = bars]
    /\ last' = Call("loop_merge", "", "")
    /\ UNCHANGED <<cfg, now, balance, positions, cooldowns, symbol_pnl, daily_trades,
                   trade_day, daily_pnl, pnl_day, disk, rw_file, strat, feed, hist>>

\* lines 181-252, the body of "for sym in wl[:50]" for symbol sym at price
\* price (None: no price) with candles df: the ledger it leaves, what
\* happened, the signal generated and the order returned
LoopBody(L, sym, price, df) ==
    LET Nothing(L1, ret, sig) ==
            [L |-> L1, ret |-> ret, sig |-> sig, qty |-> Zero, price |-> Zero, pnl |-> Zero]
    IN  IF price = None THEN Nothing(L, "no_price", loop.sig)
        ELSE IF sym \in DOMAIN L.positions
        THEN LET r == ShouldExitOrRaise(L, sym, price)
                 q == Sell(r.L, sym, price)
             IN  IF r.ret \in {"tp", "sl_or_trail"}
                 THEN [L |-> q.L, ret |-> r.ret, sig |-> loop.sig,
                       qty |-> q.qty, price |-> q.price, pnl |-> q.pnl]
                 ELSE Nothing(r.L, IF r.ret = "TypeError" THEN "exit_TypeError" ELSE "hold",
                              loop.sig)
        ELSE IF df.len = 0 THEN Nothing(L, "no_candles", loop.sig)
        ELSE LET c   == CanOpen(L)
                 sig == generate_signal(df, strat.scfg)
                 o   == BuyOrRaise(c.L, sym, price, LoopMeta)
             IN  IF ~c.ret THEN Nothing(c.L, "closed", loop.sig)
                 ELSE IF sig.signal # "BUY" THEN Nothing(c.L, "HOLD", sig)
                 ELSE [L |-> o.L,
                       ret |-> CASE o.ret = "ok" -> "bought"
                                 [] o.ret = "TypeError" -> "buy_TypeError"
                                 [] OTHER -> "rejected",
                       sig |-> sig, qty |-> o.qty, price |-> o.price, pnl |-> Zero]

\* one pass through the body of the for loop; an exception ends the thread
LoopSymbol ==
    /\ loop.pc = "scan"
    /\ loop.idx <= Len(Take(loop.wl, 50))
    /\ LET sym   == loop.wl[loop.idx]
           price == IF sym \in Symbols THEN loop.market[sym] ELSE None
           df    == IF sym \in Symbols THEN loop.bars[sym] ELSE DefaultBars
       IN  \E b \in {LoopBody(Ledger, sym, price, df)} :
             \E died \in {b.ret \in {"exit_TypeError", "buy_TypeError"}} :
               /\ balance' = b.L.balance
               /\ positions' = b.L.positions
               /\ cooldowns' = b.L.cooldowns
               /\ symbol_pnl' = b.L.symbol_pnl
               /\ daily_trades' = b.L.daily_trades
               /\ trade_day' = b.L.trade_day
               /\ daily_pnl' = b.L.daily_pnl
               /\ pnl_day' = b.L.pnl_day
               /\ disk' = b.L.disk
               /\ rw_file' = b.L.rw_file
               /\ loop' = [loop EXCEPT !.pc = IF died THEN "dead" ELSE "scan",
                                       !.idx = IF died THEN loop.idx ELSE loop.idx + 1,
                                       !.sig = b.sig]
               /\ last' = [Call("loop_symbol", sym, b.ret) EXCEPT
                               !.arg = price, !.qty = b.qty, !.price = b.price,
                               !.pnl = b.pnl]
               /\ hist' = Observe(CASE b.ret \in {"tp", "sl_or_trail"} ->
                                          HistSell(hist, sym, b.pnl)
                                    [] b.ret = "bought" -> HistBuy(hist)
                                    [] OTHER -> hist,
                                  b.L)
               /\ UNCHANGED <<cfg, now, strat, feed>>

\* lines 254-265: the list is done; heartbeat and sleep
LoopSleep ==
    /\ loop.pc = "scan"
    /\ loop.idx > Len(Take(loop.wl, 50))
    /\ loop' = [loop EXCEPT !.pc = "merge"]
    /\ last' = Call("loop_sleep", "", "")
    /\ UNCHANGED <<cfg, now, balance, positions, cooldowns, symbol_pnl, daily_trades,
                   trade_day, daily_pnl, pnl_day, disk, rw_file, strat, feed, hist>>

CanOpenCall ==
    LET r == CanOpen(Ledger)
    IN  /\ Install(r.L)
        /\ last' = Call("can_open", "", IF r.ret THEN "true" ELSE "false")
        /\ hist' = Observe(hist, r.L)
        /\ UNCHANGED <<cfg, now>>

\* the process is stopped and started again: __init__ reloads the files
Restart ==
    /\ Install(Construct(disk, rw_file))
    /\ last' = Call("restart", "", "")
    /\ hist' = Observe(hist, Construct(disk, rw_file))
    /\ UNCHANGED <<cfg, now>>

\* the process is started after files were lost or damaged: __init__ finds
\* them in state st
RestartFrom(st) ==
    /\ Install(ConstructFrom(disk, st, rw_file))
    /\ last' = [Call("construct", "", "") EXCEPT !.files = st]
    /\ hist' = Observe(hist, ConstructFrom(disk, st, rw_file))
    /\ UNCHANGED <<cfg, now>>

\* the files buy writes once the position is opened, in the order of line 245
PersistedByBuy ==
    <<"balance", "positions", "trade_count">>

\* the files sell writes with positions.json before balance.txt
PersistedBySellPositionsFirst ==
    <<"positions", "balance", "cooldowns", "symbol_pnl", "daily_pnl">>

\* the files sell writes, in the order of line 306
PersistedBySell ==
    <<"balance", "positions", "cooldowns", "symbol_pnl", "daily_pnl">>

\* the files when the process stops after the first k writes of order: the
\* files written hold what the operation leaves (after), the others what
\* they held (before)
WrittenFiles(before, after, order, k) ==
    [f \in FileNames |-> IF \E i \in 1..k : order[i] = f THEN after[f] ELSE before[f]]

\* the process stops inside an operation with result r, after k of its
\* writes, and is started again: __init__ reloads the files
Crashed(op, symbol, price, r, before, order, k) ==
    /\ r.ret = "ok"
    /\ hist.trades < MaxCrashTrades
    /\ Install(Construct(WrittenFiles(before, r.L.disk, order, k), rw_file))
    /\ last' = [Call(op, symbol, "") EXCEPT
                    !.arg = price,
                    !.files = [f \in FileNames |->
                                  IF \E i \in 1..k : order[i] = f THEN "written" ELSE "ok"]]
    /\ hist' = [hist EXCEPT !.trades = hist.trades + 1]
    /\ UNCHANGED <<cfg, now>>

\* buy stopped between two of its writes (lines 244-246); can_open has
\* written what it resets before
BuyCrash(symbol, price, k) ==
    Crashed("buy_crash", symbol, price, Buy(Ledger, symbol, price, EmptyMeta),
            CanOpen(Ledger).L.disk, PersistedByBuy, k)

\* sell stopped between two of its writes (lines 301-307)
SellCrash(symbol, price, k) ==
    Crashed("sell_crash", symbol, price, Sell(Ledger, symbol, price),
            disk, PersistedBySell, k)

\* time passes
Tick ==
    /\ now < MaxTime
    /\ now' = now + 1
    /\ last' = Call("tick", "", "")
    /\ UNCHANGED <<cfg, balance, positions, cooldowns, symbol_pnl, daily_trades,
                   trade_day, daily_pnl, pnl_day, disk, rw_file, strat, feed, loop, hist>>

\* the broker driven with the default meta
Next ==
    \/ \E s \in Symbols, p \in Prices : BuyCall(s, p, EmptyMeta)
    \/ \E s \in Symbols, p \in Prices : SellCall(s, p)
    \/ CanOpenCall
    \/ Restart
    \/ Tick

Spec ==
    Init /\ [][Next]_vars

\* the broker driven with every meta, within one day
NextMeta ==
    \/ \E s \in Symbols, p \in Prices, m \in Metas : BuyCall(s, p, m)
    \/ \E s \in Symbols, p \in Prices : SellCall(s, p)

SpecMeta ==
    Init /\ [][NextMeta]_vars

\* buy/sell cycles under the configuration of test_expectancy.py
NextCycle ==
    \/ \E s \in Symbols, p \in Prices : CycleBuyCall(s, p)
    \/ \E s \in Symbols, p \in Prices : CycleSellCall(s, p)

SpecCycle ==
    InitWith(CfgExpectancy) /\ [][NextCycle]_vars

\* positions watched by should_exit and update_trailing, in both brokers
NextTrail ==
    \/ \E s \in Symbols, p \in Prices, m \in TrailMetas :
            cfg.variant = "core" /\ BuyCall(s, p, m)
    \/ \E s \in Symbols, p \in TrailPrices : cfg.variant = "core" /\ SellCall(s, p)
    \/ \E s \in Symbols, p \in TrailPrices : cfg.variant = "core" /\ ShouldExitCall(s, p)
    \/ \E s \in Symbols, p \in TrailPrices : cfg.variant = "core" /\ UpdateTrailingCall(s, p)
    \/ \E s \in Symbols, p \in Prices, m \in TrailMetas :
            cfg.variant = "scanner" /\ ScanBuyCall(s, p, m)
    \/ \E s \in Symbols, p \in TrailPrices : cfg.variant = "scanner" /\ ScanSellCall(s, p)
    \/ \E s \in Symbols, p \in TrailPrices : cfg.variant = "scanner" /\ ScanShouldExitCall(s, p)
    \/ \E s \in Symbols, p \in TrailPrices :
            cfg.variant = "scanner" /\ ScanUpdateTrailingCall(s, p)

SpecTrail ==
    (\E c \in TrailConfigs : InitWith(c)) /\ [][NextTrail]_vars

\* positions watched by should_exit and update_trailing across restarts, in
\* both brokers
NextPersist ==
    \/ \E s \in Symbols, p \in Prices : cfg.variant = "core" /\ BuyCall(s, p, EmptyMeta)
    \/ \E s \in Symbols, p \in TrailPrices : cfg.variant = "core" /\ SellCall(s, p)
    \/ \E s \in Symbols, p \in TrailPrices : cfg.variant = "core" /\ ShouldExitCall(s, p)
    \/ \E s \in Symbols, p \in TrailPrices : cfg.variant = "core" /\ UpdateTrailingCall(s, p)
    \/ \E s \in Symbols, p \in Prices :
            cfg.variant = "scanner" /\ ScanBuyCall(s, p, EmptyMeta)
    \/ \E s \in Symbols, p \in TrailPrices : cfg.variant = "scanner" /\ ScanSellCall(s, p)
    \/ \E s \in Symbols, p \in TrailPrices : cfg.variant = "scanner" /\ ScanShouldExitCall(s, p)
    \/ \E s \in Symbols, p \in TrailPrices :
            cfg.variant = "scanner" /\ ScanUpdateTrailingCall(s, p)
    \/ Restart

SpecPersist ==
    (\E c \in TrailConfigs : InitWith(c)) /\ [][NextPersist]_vars

\* a few trades as time passes, with restarts on lost or damaged files
NextDamage ==
    \/ \E s \in Symbols, p \in Prices :
            Bought(Buy(Ledger, s, p, EmptyMeta), s, p, MaxDamageTrades)
    \/ \E s \in Symbols, p \in Prices :
            Sold(Sell(Ledger, s, p), s, p, MaxDamageTrades)
    \/ \E st \in FileStates : RestartFrom(st)
    \/ Tick

SpecDamage ==
    InitWith(CfgBase) /\ [][NextDamage]_vars

\* trades within one day, with the process stopped inside a buy or a sell
NextCrash ==
    \/ \E s \in Symbols, p \in Prices :
            Bought(Buy(Ledger, s, p, EmptyMeta), s, p, MaxCrashTrades)
    \/ \E s \in Symbols, p \in Prices :
            Sold(Sell(Ledger, s, p), s, p, MaxCrashTrades)
    \/ \E s \in Symbols, p \in Prices, k \in 0..Len(PersistedByBuy) : BuyCrash(s, p, k)
    \/ \E s \in Symbols, p \in Prices, k \in 0..Len(PersistedBySell) : SellCrash(s, p, k)

SpecCrash ==
    InitWith(CfgBase) /\ [][NextCrash]_vars

\* buys and sells as time passes, across restarts
NextCool ==
    \/ \E s \in Symbols, p \in Prices : BuyCall(s, p, EmptyMeta)
    \/ \E s \in Symbols, p \in Prices : SellCall(s, p)
    \/ Restart
    \/ Tick

SpecCool ==
    InitWith(CfgCool) /\ [][NextCool]_vars

\* buys and sells with restarts, under each reset flag
NextReset ==
    \/ \E s \in Symbols, p \in Prices : BuyCall(s, p, EmptyMeta)
    \/ \E s \in Symbols, p \in Prices : SellCall(s, p)
    \/ Restart

SpecReset ==
    (\E c \in ResetConfigs : InitWith(c)) /\ [][NextReset]_vars

\* buys and sells that meet every kind of rejection
NextReject ==
    \/ \E s \in Symbols, p \in Prices : BuyCall(s, p, EmptyMeta)
    \/ \E s \in Symbols, p \in Prices : SellCall(s, p)
    \/ Tick

SpecReject ==
    (\E c \in RejectConfigs : InitWith(c)) /\ [][NextReject]_vars

\* generate_signal(df, cfg) on the series and config of the state
GenerateSignal ==
    /\ strat.sig = NoSignal
    /\ strat' = [strat EXCEPT !.sig = generate_signal(strat.df, strat.scfg)]
    /\ last' = Call("generate_signal", "", generate_signal(strat.df, strat.scfg).signal)
    /\ UNCHANGED <<cfg, now, balance, positions, cooldowns, symbol_pnl, daily_trades,
                   trade_day, daily_pnl, pnl_day, disk, rw_file, feed, loop, hist>>

\* apply_momentum_entry(df, sig, cfg) on the signal generated
ApplyMomentum ==
    LET r == apply_momentum_entry(strat.df, strat.sig, strat.scfg)
    IN  /\ strat.sig # NoSignal
        /\ strat.out = NoSignal
        /\ strat' = [strat EXCEPT !.out = r.out, !.base = r.base]
        /\ last' = Call("apply_momentum_entry", "", r.out.signal)
        /\ UNCHANGED <<cfg, now, balance, positions, cooldowns, symbol_pnl, daily_trades,
                       trade_day, daily_pnl, pnl_day, disk, rw_file, feed, loop, hist>>

\* load_crypto_whitelist() reads the runtime file and the PnL file
LoadWhitelist ==
    /\ feed' = [feed EXCEPT !.loaded =
                    load_crypto_whitelist(feed.wl, rw_file, feed.perf, feed.min_pnl)]
    /\ last' = Call("load_crypto_whitelist", "", "")
    /\ UNCHANGED <<cfg, now, balance, positions, cooldowns, symbol_pnl, daily_trades,
                   trade_day, daily_pnl, pnl_day, disk, rw_file, strat, loop, hist>>

\* update_runtime_whitelist, lines 43-64: under the lock the file is read,
\* the lists are merged and the result is written to the temp file
UpdateWriteTmp(new_syms, max_symbols) ==
    /\ feed.pc = "idle"
    /\ feed' = [feed EXCEPT !.pc = "replace",
                            !.new_syms = new_syms,
                            !.max_symbols = max_symbols,
                            !.existing = ReadRuntime(rw_file),
                            !.merged = Merge(<<>>, new_syms \o ReadRuntime(rw_file),
                                             max_symbols),
                            !.tmp = Merge(<<>>, new_syms \o ReadRuntime(rw_file),
                                          max_symbols)]
    /\ last' = Call("write_tmp", "", "")
    /\ UNCHANGED <<cfg, now, balance, positions, cooldowns, symbol_pnl, daily_trades,
                   trade_day, daily_pnl, pnl_day, disk, rw_file, strat, loop, hist>>

\* update_runtime_whitelist, lines 65-68: os.replace moves the temp file over
\* the runtime file and the merged list is returned
UpdateReplace ==
    /\ feed.pc = "replace"
    /\ rw_file' = feed.tmp
    /\ feed' = [feed EXCEPT !.pc = "idle", !.tmp = <<>>]
    /\ last' = Call("update_runtime_whitelist", "", "")
    /\ UNCHANGED <<cfg, now, balance, positions, cooldowns, symbol_pnl, daily_trades,
                   trade_day, daily_pnl, pnl_day, disk, strat, loop, hist>>

\* buy is about to rewrite the runtime whitelist (lines 188-198): the gates
\* are open, the symbol is at its loss limit and the file lists it
EvictionAhead(L, symbol) ==
    /\ CanOpen(L).ret
    /\ ~OnCooldown(CanOpen(L).L, symbol)
    /\ LossLimitBreached(CanOpen(L).L, symbol)
    /\ rw_file # Torn
    /\ InList(rw_file, symbol)

\* buy, lines 188-198: the gates, then the runtime whitelist is read and the
\* symbol removed from the list in memory; no lock is taken
BuyEvictRead(symbol, price) ==
    /\ loop.pc = "boot"
    /\ EvictionAhead(Ledger, symbol)
    /\ \E L \in {CanOpen(Ledger).L} :
          /\ balance' = L.balance
          /\ positions' = L.positions
          /\ cooldowns' = L.cooldowns
          /\ symbol_pnl' = L.symbol_pnl
          /\ daily_trades' = L.daily_trades
          /\ trade_day' = L.trade_day
          /\ daily_pnl' = L.daily_pnl
          /\ pnl_day' = L.pnl_day
          /\ disk' = L.disk
    /\ loop' = [loop EXCEPT !.pc = "evict_open",
                            !.wl = RemoveFirst(rw_file, symbol),
                            !.evicted = symbol]
    /\ last' = [Call("buy_read", symbol, "") EXCEPT !.arg = price]
    /\ UNCHANGED <<cfg, now, rw_file, strat, feed, hist>>

\* buy, line 199: open(RW_PATH, "w") empties the file
BuyEvictOpen ==
    /\ loop.pc = "evict_open"
    /\ rw_file' = Torn
    /\ loop' = [loop EXCEPT !.pc = "evict_dump"]
    /\ last' = Call("buy_open", loop.evicted, "")
    /\ UNCHANGED <<cfg, now, balance, positions, cooldowns, symbol_pnl, daily_trades,
                   trade_day, daily_pnl, pnl_day, disk, strat, feed, hist>>

\* buy, lines 200-205: json.dump writes the shortened list, the file is
\* closed and buy returns None
BuyEvictDump ==
    /\ loop.pc = "evict_dump"
    /\ rw_file' = loop.wl
    /\ loop' = [loop EXCEPT !.pc = "boot", !.wl = <<>>]
    /\ last' = Call("buy", loop.evicted, "null")
    /\ UNCHANGED <<cfg, now, balance, positions, cooldowns, symbol_pnl, daily_trades,
                   trade_day, daily_pnl, pnl_day, disk, strat, feed, hist>>

\* the trading thread calls buy and sell while the trending thread updates
\* the runtime whitelist with CCC (scanner.max_symbols at its default)
NextWriters ==
    \/ \E s \in Symbols, p \in Prices :
            /\ loop.pc = "boot"
            /\ ~EvictionAhead(Ledger, s)
            /\ Bought(Buy(Ledger, s, p, EmptyMeta), s, p, MaxWriterTrades)
    \/ \E s \in Symbols, p \in Prices :
            /\ loop.pc = "boot"
            /\ Sold(Sell(Ledger, s, p), s, p, MaxWriterTrades)
    \/ \E s \in Symbols, p \in Prices : BuyEvictRead(s, p)
    \/ BuyEvictOpen
    \/ BuyEvictDump
    \/ UpdateWriteTmp(<<"CCC">>, 20)
    \/ UpdateReplace

SpecWriters ==
    InitWith(CfgWriters) /\ [][NextWriters]_vars

\* the whitelist read while it is being updated
NextWhitelist ==
    \/ LoadWhitelist
    \/ \E q \in NewSymLists, n \in MaxSymbolsValues : UpdateWriteTmp(q, n)
    \/ UpdateReplace

\* the files and the configuration the process finds
InitWhitelist ==
    /\ cfg = CfgBase
    /\ now = StartTime
    /\ balance = Get(CfgBase.dry_run_wallet, R(1000, 1))
    /\ positions = NoPositions
    /\ cooldowns = [s \in Symbols |-> 0]
    /\ symbol_pnl = [s \in Symbols |-> Zero]
    /\ daily_trades = 0
    /\ trade_day = StartTime \div DayLen
    /\ daily_pnl = Zero
    /\ pnl_day = StartTime \div DayLen
    /\ disk = FreshDisk(CfgBase)
    /\ rw_file \in RuntimeFiles
    /\ \E w \in ConfiguredWhitelists, m \in MinPnls, f \in PerfFiles :
          feed = [NoFeed EXCEPT !.wl = w, !.min_pnl = m, !.perf = f]
    /\ strat = NoStrategy
    /\ loop = NoLoop
    /\ last = NoCall
    /\ hist = NoHist

SpecWhitelist ==
    InitWhitelist /\ [][NextWhitelist]_vars

NextSignal ==
    \/ GenerateSignal
    \/ ApplyMomentum

\* a signal is generated for some series under some config, then passed
\* through the momentum entry
InitSignal ==
    /\ BrokerInit(CfgBase)
    /\ \E df \in FullBars \cup ShortBars, c \in Strategies :
          strat = [NoStrategy EXCEPT !.df = df, !.scfg = c]

SpecSignal ==
    InitSignal /\ [][NextSignal]_vars

\* buys that ask for a stop of their own
NextStop ==
    \/ \E s \in Symbols, p \in Prices, m \in StopMetas : BuyCall(s, p, m)
    \/ \E s \in Symbols, p \in Prices : SellCall(s, p)

SpecStop ==
    (\E c \in StopConfigs : InitWith(c)) /\ [][NextStop]_vars

\* positions watched by should_exit up to their exit, in both brokers
NextExit ==
    \/ \E s \in Symbols, p \in Prices, m \in TrailMetas :
            cfg.variant = "core" /\ BuyCall(s, p, m)
    \/ \E s \in Symbols, p \in TrailPrices : cfg.variant = "core" /\ SellCall(s, p)
    \/ \E s \in Symbols, p \in TrailPrices : cfg.variant = "core" /\ ShouldExitCall(s, p)
    \/ \E s \in Symbols, p \in Prices, m \in TrailMetas :
            cfg.variant = "scanner" /\ ScanBuyCall(s, p, m)
    \/ \E s \in Symbols, p \in TrailPrices : cfg.variant = "scanner" /\ ScanSellCall(s, p)
    \/ \E s \in Symbols, p \in TrailPrices : cfg.variant = "scanner" /\ ScanShouldExitCall(s, p)

SpecExit ==
    (\E c \in ExitConfigs : InitWith(c)) /\ [][NextExit]_vars

\* the trading loop: positions are bought, watched and sold on exit decisions
NextLoop ==
    \/ \E s \in Symbols, p \in Prices : BuyCall(s, p, EmptyMeta)
    \/ \E s \in Symbols, p \in TrailPrices : LoopExitCall(s, p)

SpecLoop ==
    (\E c \in LoopConfigs : InitWith(c)) /\ [][NextLoop]_vars

\* the trading thread and the trending thread, on a market that moves
\* between iterations
NextTrading ==
    \/ LoopBoot
    \/ \E m \in Markets, df \in LoopBars :
            LoopMerge(m, [s \in Symbols |-> df])
    \/ LoopSymbol
    \/ LoopSleep
    \/ \E q \in TrendingLists : UpdateWriteTmp(q, Len(q))
    \/ UpdateReplace

SpecTrading ==
    (\E c \in TradingConfigs : InitWith(c)) /\ [][NextTrading]_vars

\* stakes asked for between buys and sells
NextStake ==
    \/ \E s \in Symbols, p \in Prices : BuyCall(s, p, EmptyMeta)
    \/ \E s \in Symbols, p \in Prices : SellCall(s, p)
    \/ \E s \in Symbols \cup {""} : StakeAmountCall(s)

SpecStake ==
    (\E c \in StakeConfigs : InitWith(c)) /\ [][NextStake]_vars

\* buys with every meta under every exits / trailing configuration
NextParams ==
    \/ \E s \in Symbols, p \in Prices, m \in ParamMetas :
            cfg.variant = "core" /\ BuyCall(s, p, m)
    \/ \E s \in Symbols, p \in Prices : cfg.variant = "core" /\ SellCall(s, p)
    \/ \E s \in Symbols, p \in Prices, m \in ParamMetas :
            cfg.variant = "scanner" /\ ScanBuyCall(s, p, m)
    \/ \E s \in Symbols, p \in Prices : cfg.variant = "scanner" /\ ScanSellCall(s, p)

SpecParams ==
    (\E c \in ParamConfigs : InitWith(c)) /\ [][NextParams]_vars

\* buy, sell and should_exit on brokers allowed one open position
NextOpen ==
    \/ \E s \in Symbols, p \in Prices : cfg.variant = "core" /\ BuyCall(s, p, EmptyMeta)
    \/ \E s \in Symbols, p \in Prices : cfg.variant = "core" /\ SellCall(s, p)
    \/ \E s \in Symbols, p \in TrailPrices : cfg.variant = "core" /\ ShouldExitCall(s, p)
    \/ \E s \in Symbols, p \in Prices :
            cfg.variant = "scanner" /\ ScanBuyCall(s, p, EmptyMeta)
    \/ \E s \in Symbols, p \in Prices : cfg.variant = "scanner" /\ ScanSellCall(s, p)
    \/ \E s \in Symbols, p \in TrailPrices : cfg.variant = "scanner" /\ ScanShouldExitCall(s, p)

SpecOpen ==
    (\E c \in OpenConfigs : InitWith(c)) /\ [][NextOpen]_vars


\* ------------------------------------------------------------------------
\* Claims
\* ------------------------------------------------------------------------
\* C1: a buy for a symbol that already has an open position is not admitted: it
\* returns null and leaves the balance and the existing position unchanged.
C1_NoDoubleOpen ==
    [][\A s \in Symbols :
          (last'.op = "buy" /\ last'.sym = s /\ s \in DOMAIN positions)
              => /\ last'.ret = "null"
                 /\ balance' = balance
                 /\ positions' = positions]_vars

\* C2: the stake debited by a buy never exceeds the balance held before it, so
\* the balance is never negative.
C2_BalanceNonNegative ==
    RLe(Zero, balance)

\* C3: a buy debits the stake qty * entry and records the position; the sell
\* that follows removes the position, credits qty * p2_effective and reports
\* pnl = qty * (p2_effective - entry), so after the round trip
\* balance = initial_balance - stake + qty * p2_effective.  With wallet 1000,
\* tradable ratio 1, stake ratio 1 and no fees, buying at 10 gives qty 100 and
\* balance 0, and selling at 12 gives pnl 200 and balance 1200.
C3_BuyStep(s) ==
    (last'.op = "buy" /\ last'.sym = s /\ last'.ret = "ok")
        => /\ s \in DOMAIN positions'
           /\ positions'[s].qty = last'.qty
           /\ positions'[s].entry = last'.price
           /\ last'.price = BuyAdjPrice(last'.arg)
           /\ balance' = RSub(balance, RMul(last'.qty, last'.price))
           /\ (cfg = CfgAllIn /\ balance = R(1000, 1) /\ symbol_pnl[s] = Zero
                 /\ last'.arg = R(10, 1))
                => (last'.qty = R(100, 1) /\ balance' = Zero)

C3_SellStep(s) ==
    (last'.op = "sell" /\ last'.sym = s /\ last'.ret = "ok")
        => /\ s \in DOMAIN positions
           /\ s \notin DOMAIN positions'
           /\ last'.qty = positions[s].qty
           /\ last'.price = SellAdjPrice(last'.arg)
           /\ balance' = RAdd(balance, RMul(positions[s].qty, last'.price))
           /\ last'.pnl = RMul(positions[s].qty, RSub(last'.price, positions[s].entry))
           /\ (cfg = CfgAllIn /\ positions[s].qty = R(100, 1) /\ positions[s].entry = R(10, 1)
                 /\ balance = Zero /\ last'.arg = R(12, 1))
                => (last'.pnl = R(200, 1) /\ balance' = R(1200, 1))

C3_RoundTrip ==
    [][\A s \in Symbols : C3_BuyStep(s) /\ C3_SellStep(s)]_vars

\* C3 witness: the end-to-end scenario of the test has run
C3_Witness ==
    /\ cfg = CfgAllIn
    /\ hist.trades = 2
    /\ last.op = "sell" /\ last.ret = "ok" /\ last.arg = R(12, 1)
    /\ last.qty = R(100, 1)
    /\ last.pnl = R(200, 1)
    /\ balance = R(1200, 1)
    /\ positions = NoPositions


\* C4: within one UTC day at most max_trades_per_day buys go through, restarts
\* included; once daily_trades has reached the cap, every further buy on that
\* day returns null.
C4_DailyTradeCap ==
    [][/\ hist'.buys <= cfg.max_trades_per_day
       /\ (last'.op = "buy" /\ trade_day = Today
             /\ daily_trades >= cfg.max_trades_per_day) => last'.ret = "null"]_vars

\* C4 witness: a buy, a sell and a second buy went through today and a further
\* buy, which nothing else rejects, returned null
C4_Witness ==
    /\ cfg.max_trades_per_day = 2
    /\ hist.trades = 3
    /\ hist.buys = 2 /\ hist.buys_day = Today
    /\ daily_trades = 2 /\ trade_day = Today
    /\ last.op = "buy" /\ last.ret = "null"
    /\ last.sym \notin DOMAIN positions
    /\ ~OnCooldown(Ledger, last.sym)
    /\ ~DailyLossBreached(Ledger)
    /\ ~MaxOpenReached(Ledger)
    /\ ~LossLimitBreached(Ledger, last.sym)
    /\ RLt(Zero, balance)

\* C5: once a symbol's realized PnL is at or below symbol_loss_limit, every buy
\* for it returns null and leaves the symbol absent from the runtime whitelist.
C5_LossLimitEvicts ==
    \A s \in Symbols :
        (last.op = "buy" /\ last.sym = s /\ cfg.symbol_loss_limit # Absent
            /\ RLe(symbol_pnl[s], cfg.symbol_loss_limit))
            => (last.ret = "null" /\ ~InList(rw_file, s))

\* C7: with a negative daily PnL stake_amount() is strictly smaller than it is
\* with the daily PnL at zero, everything else equal.
C7_StakeReducedAfterLoss ==
    (RLt(daily_pnl, Zero) /\ RLt(Zero, balance))
        => RLt(StakeAmount(Ledger, ""), StakeAmount([Ledger EXCEPT !.daily_pnl = Zero], ""))

\* C9: when the daily loss limit is evaluated (by can_open, also inside buy),
\* daily_pnl is the sum of the PnL of the sells made on the current UTC day and
\* daily_trades is the number of buys made on it.
C9_DailyCountersTrue ==
    (last.op \in {"can_open", "buy"})
        => /\ daily_pnl = (IF hist.sold_day = Today THEN hist.sold ELSE Zero)
           /\ daily_trades = (IF hist.buys_day = Today THEN hist.buys ELSE 0)

\* the day's recorded PnL is at or below -|daily_loss_limit|
C10_Breached ==
    /\ cfg.daily_loss_limit # Absent
    /\ pnl_day = Today
    /\ RLe(daily_pnl, RNeg(RAbs(cfg.daily_loss_limit)))

\* C10 as stated: once the daily loss limit has been breached, every can_open
\* returns false and every buy returns null until the UTC date changes.
C10_BreachLatches ==
    (hist.breach_day = Today)
        => /\ last.op = "buy" => last.ret = "null"
           /\ last.op = "can_open" => last.ret = "false"

\* C10 as amended: a can_open or buy called while the day's recorded PnL is at
\* or below -|daily_loss_limit| is rejected; with no daily_loss_limit
\* configured a can_open that returns false has another reason.
C10_BreachRejects ==
    [][/\ (C10_Breached /\ last'.op = "buy") => last'.ret = "null"
       /\ (C10_Breached /\ last'.op = "can_open") => last'.ret = "false"
       /\ (cfg.daily_loss_limit = Absent /\ last'.op = "can_open" /\ last'.ret = "false")
            => \/ daily_trades' >= cfg.max_trades_per_day
               \/ Cardinality(DOMAIN positions) >= cfg.max_open_trades
               \/ RLe(balance, Zero)]_vars

\* C10 witness: a buy that only the daily loss limit rejects
C10_Witness ==
    /\ C10_Breached
    /\ last.op = "buy" /\ last.ret = "null"
    /\ last.sym \notin DOMAIN positions
    /\ ~OnCooldown(Ledger, last.sym)
    /\ ~TradeCapReached(Ledger)
    /\ ~MaxOpenReached(Ledger)
    /\ ~LossLimitBreached(Ledger, last.sym)
    /\ RLt(Zero, balance)


RECURSIVE SumOf(_)
\* the sum of a sequence of amounts
SumOf(q) ==
    IF q = <<>> THEN Zero ELSE RAdd(q[1], SumOf(Tail(q)))

\* the last n entries of q (all of q when it is shorter)
LastN(q, n) ==
    IF Len(q) <= n THEN q ELSE SubSeq(q, Len(q) - n + 1, Len(q))

\* C6: symbol_pnl[symbol] holds the EXPECTANCY_WINDOW most recent PnL values of
\* the symbol and nothing older: what is stored for a symbol amounts to the sum
\* of its last EXPECTANCY_WINDOW trades.
C6_RollingWindow ==
    \A s \in Symbols :
        symbol_pnl[s] = SumOf(LastN(hist.pnl_log[s], EXPECTANCY_WINDOW))

\* C8: a should_exit or update_trailing call, at any price, leaves every open
\* position open with a stop and a peak no lower than before, in both brokers.
C8_StopPeakMonotone ==
    [][(last'.op \in {"should_exit", "update_trailing"})
          => \A s \in DOMAIN positions :
                /\ s \in DOMAIN positions'
                /\ RLe(positions[s].stop, positions'[s].stop)
                /\ RLe(positions[s].peak, positions'[s].peak)]_vars

\* C8 witness: a position whose stop was trailed above its entry and whose
\* peak is above its entry has just been watched at a price below both
C8_Witness ==
    /\ cfg.variant = "core"
    /\ last.op \in {"should_exit", "update_trailing"}
    /\ last.sym \in DOMAIN positions
    /\ RLt(positions[last.sym].entry, positions[last.sym].stop)
    /\ RLt(positions[last.sym].entry, positions[last.sym].peak)
    /\ RLt(last.arg, positions[last.sym].stop)


\* C11: the number of open positions never exceeds max_open_trades, over any
\* sequence of buy, sell and should_exit calls, in both brokers.
C11_MaxOpenTrades ==
    Cardinality(DOMAIN positions) <= cfg.max_open_trades

\* C11 witness: with the cap reached, a buy for a symbol that is not open, and
\* that nothing else rejects, returned null
C11_Witness ==
    /\ Cardinality(DOMAIN positions) = cfg.max_open_trades
    /\ last.op = "buy" /\ last.ret = "null"
    /\ last.sym \notin DOMAIN positions
    /\ ~OnCooldown(Ledger, last.sym)
    /\ ~TradeCapReached(Ledger)
    /\ ~DailyLossBreached(Ledger)
    /\ RLt(Zero, balance)


\* symbol s was sold less than cooldown_minutes ago
C12_Cooling(s) ==
    /\ hist.sold_at[s] >= 0
    /\ now < hist.sold_at[s] + cfg.cooldown_minutes

\* C12: a buy of a symbol issued less than cooldown_minutes after its last sell
\* returns null, restarts in between included; a buy issued later, or for a
\* symbol never sold, goes through when nothing but the cooldown could stop it.
C12_Cooldown ==
    [][\A s \in Symbols :
          (last'.op = "buy" /\ last'.sym = s)
              => /\ C12_Cooling(s) => last'.ret = "null"
                 /\ (~C12_Cooling(s) /\ CanOpen(Ledger).ret
                       /\ ~LossLimitBreached(Ledger, s)
                       /\ RLt(Zero, StakeBeforeRescale(CanOpen(Ledger).L, s)))
                        => last'.ret = "ok"]_vars

\* C12 witness: a buy one tick after the symbol's sell, which only the
\* cooldown rejects, returned null
C12_Witness ==
    /\ last.op = "buy" /\ last.ret = "null"
    /\ C12_Cooling(last.sym)
    /\ now = hist.sold_at[last.sym] + 1
    /\ CanOpen(Ledger).ret
    /\ last.sym \notin DOMAIN positions


\* C13: a buy that returns null leaves balance, positions, cooldowns,
\* symbol_pnl and the daily counters as they were, apart from the rollover of
\* the daily counters on a new day; a sell of a symbol with no position
\* returns null and changes nothing.
C13_RejectionsChangeNothing ==
    [][/\ (last'.op = "buy" /\ last'.ret = "null")
            => /\ balance' = balance
               /\ positions' = positions
               /\ cooldowns' = cooldowns
               /\ symbol_pnl' = symbol_pnl
               /\ daily_trades' = (IF trade_day = Today THEN daily_trades ELSE 0)
               /\ daily_pnl' = (IF pnl_day = Today THEN daily_pnl ELSE Zero)
       /\ (last'.op = "sell" /\ last'.sym \notin DOMAIN positions)
            => /\ last'.ret = "null"
               /\ UNCHANGED <<balance, positions, cooldowns, symbol_pnl, daily_trades,
                              trade_day, daily_pnl, pnl_day, disk, rw_file>>]_vars

\* C13 witness: a buy rejected by the symbol loss limit, past can_open and the
\* cooldown, has evicted the symbol from the runtime whitelist
C13_Witness ==
    /\ last.op = "buy" /\ last.ret = "null"
    /\ LossLimitBreached(Ledger, last.sym)
    /\ CanOpen(Ledger).ret
    /\ ~OnCooldown(Ledger, last.sym)
    /\ ~InList(rw_file, last.sym)

\* a buy rejected for its stake alone: the stake ratio is zero
C13_ZeroStakeReached ==
    /\ last.op = "buy" /\ last.ret = "null"
    /\ cfg.stake_per_trade_ratio = Zero
    /\ CanOpen(Ledger).ret


\* C14: constructing the broker with reset_balance set, under risk or at the
\* top level, yields balance = dry_run_wallet whatever balance was persisted;
\* with no flag the constructed balance is the persisted one.
C14_ResetBalance ==
    [][(last'.op = "restart")
          => /\ (cfg.reset_balance \/ cfg.top_reset_balance)
                    => balance' = cfg.dry_run_wallet
             /\ ~(cfg.reset_balance \/ cfg.top_reset_balance)
                    => balance' = disk.balance]_vars

\* C14 witness: a broker with the top-level flag restarted on a persisted
\* balance of 250 has the wallet of 1000
C14_Witness ==
    /\ cfg.top_reset_balance
    /\ last.op = "restart"
    /\ hist.trades = 2 /\ Cardinality(DOMAIN positions) = 2
    /\ balance = R(1000, 1)
    /\ cfg.dry_run_wallet = R(1000, 1)


\* C15: for a bar series of fewer than 60 bars, the empty one included,
\* generate_signal returns HOLD with failure reason "warmup", under every
\* configuration.
C15_Warmup ==
    (strat.sig # NoSignal /\ strat.df.len < 60)
        => /\ strat.sig.signal = "HOLD"
           /\ strat.sig.failed = "warmup"
           /\ strat.sig.score = Zero

\* C15 witness: the empty series has been given its signal
C15_Witness ==
    /\ strat.df.len = 0
    /\ strat.sig.signal = "HOLD" /\ strat.sig.failed = "warmup"
    /\ strat.scfg # DefaultStrategy

\* the series of the state scored against threshold t
C16_At(t) ==
    generate_signal(strat.df, [strat.scfg EXCEPT !.buy_score_threshold = t])

\* C16: for a fixed series the score does not depend on buy_score_threshold; a
\* BUY at one threshold is a BUY at every lower one, and at every threshold
\* strictly above the score the result is HOLD.
C16_ThresholdMonotone ==
    (strat.sig # NoSignal)
        => \A t \in Thresholds :
              /\ C16_At(t).score = strat.sig.score
              /\ (strat.sig.signal = "BUY" /\ RLe(t, MinScore(strat.scfg)))
                    => C16_At(t).signal = "BUY"
              /\ RLt(strat.sig.score, t) => C16_At(t).signal = "HOLD"

\* C16 witness: a series that is a BUY with score 1.3 at threshold 1 and a
\* HOLD for its score at threshold 1.5
C16_Witness ==
    /\ strat.sig.signal = "BUY"
    /\ strat.scfg.buy_score_threshold = One
    /\ strat.sig.score = R(13, 10)
    /\ C16_At(R(13, 10)).signal = "BUY"
    /\ C16_At(R(3, 2)).signal = "HOLD"
    /\ C16_At(R(3, 2)).failed = "score"


\* the mean volume of the series is below the configured min_avg_volume
C17_VolumeBelowFloor ==
    /\ strat.sig # NoSignal
    /\ strat.df.len >= 60
    /\ strat.scfg.min_avg_volume # Absent
    /\ RLt(strat.df.avg_vol, strat.scfg.min_avg_volume)

RECURSIVE C18_FirstFailure(_)
C18_FirstFailure(q) ==
    IF q = <<>> THEN "None"
    ELSE LET df == strat.df
             c  == strat.scfg
             failing ==
                 CASE Head(q) = "atr_range"  -> ~AtrInRange(df, c)
                   [] Head(q) = "avg_volume" -> AvgVolumeLow(df, c)
                   [] Head(q) = "adx"        -> AdxLow(df, c)
                   [] Head(q) = "trend"      -> ~TrendUp(df)
                   [] Head(q) = "volume"     -> ~VolOk(df)
                   [] Head(q) = "momentum"   -> ~(MacdFlipUp(df) \/ Breakout(df))
                   [] Head(q) = "score"      -> RLt(Score(df), MinScore(c))
         IN  IF failing THEN Head(q) ELSE C18_FirstFailure(Tail(q))

\* C18 as stated: the reason of a HOLD on a series of at least 60 bars is
\* that of the earliest failing step in the order volatility, volume floor,
\* trend strength, trend, volume confirmation, momentum, score.
C18_TrendBeforeVolume ==
    (strat.sig.signal = "HOLD" /\ strat.df.len >= 60)
        => strat.sig.failed = C18_FirstFailure(
               <<"atr_range", "avg_volume", "adx", "trend", "volume", "momentum", "score">>)

\* C18 as amended: the reason is that of the earliest failing step in the
\* order volatility, volume floor, trend strength, volume confirmation, trend,
\* momentum, score.
C18_VolumeBeforeTrend ==
    (strat.sig.signal = "HOLD" /\ strat.df.len >= 60)
        => strat.sig.failed = C18_FirstFailure(
               <<"atr_range", "avg_volume", "adx", "volume", "trend", "momentum", "score">>)

\* C18 witness: a series with neither trend nor volume confirmation, past the
\* first three gates, is held for its volume
C18_Witness ==
    /\ strat.sig.signal = "HOLD" /\ strat.sig.failed = "volume"
    /\ strat.df.len >= 60
    /\ ~TrendUp(strat.df)
    /\ ~VolOk(strat.df)


\* C19: every result of generate_signal is BUY or HOLD; a failure reason is
\* present only on HOLD results, every HOLD carries a reason that is not null,
\* and sl_pct / tp_pct are present only on BUY results.
C19_SignalShape ==
    (strat.sig # NoSignal)
        => /\ strat.sig.signal \in {"BUY", "HOLD"}
           /\ strat.sig.failed # "absent" => strat.sig.signal = "HOLD"
           /\ strat.sig.signal = "HOLD" => strat.sig.failed \notin {"absent", "None"}
           /\ (strat.sig.sl_pct # Absent \/ strat.sig.tp_pct # Absent)
                  => strat.sig.signal = "BUY"

\* C19 witness: a BUY carrying its stop and target of 3% and 6%
C19_Witness ==
    /\ strat.sig.signal = "BUY"
    /\ strat.sig.failed = "absent"
    /\ strat.sig.sl_pct = R(3, 100)
    /\ strat.sig.tp_pct = R(3, 50)

\* close[-1] / close[-4] - 1 on the series of the state
C20_Momo ==
    RSub(RDiv(strat.df.close, strat.df.close4), One)

\* C20: apply_momentum_entry returns a BUY signal as it is; for a HOLD signal,
\* momentum_pct > 0 and at least 4 bars it returns BUY with the momentum as
\* score iff the momentum is at least momentum_pct, and otherwise the signal
\* with its failure reason kept and its score replaced by the momentum; the
\* dict passed in is never changed.
C20_MomentumEntry ==
    (strat.out # NoSignal)
        => /\ strat.base = strat.sig
           /\ strat.sig.signal = "BUY" => strat.out = strat.sig
           /\ (strat.sig.signal = "HOLD" /\ strat.scfg.momentum_pct # Absent
                 /\ RLt(Zero, strat.scfg.momentum_pct) /\ strat.df.len >= 4)
                  => /\ strat.out.signal = "BUY" <=> RLe(strat.scfg.momentum_pct, C20_Momo)
                     /\ strat.out.score = C20_Momo
                     /\ strat.out.signal # "BUY"
                            => /\ strat.out.signal = "HOLD"
                               /\ strat.out.failed = strat.sig.failed

\* C20 witness: a HOLD with a score of its own and a momentum of 1/49, below
\* the 4% asked, comes back a HOLD for the same reason with score 1/49
C20_Witness ==
    /\ strat.out.signal = "HOLD"
    /\ strat.sig.failed = "trend" /\ strat.out.failed = "trend"
    /\ strat.sig.score = R(7, 10)
    /\ strat.out.score = R(1, 49)
    /\ strat.scfg.momentum_pct = R(1, 25)


\* the mean of the PnL list of s, or its number, as the PnL file gives it
C21_Mean(s) ==
    LET v == feed.perf.pnl[s]
    IN  IF v.kind = "list" /\ v.list # <<>> THEN RDiv(RSum(v.list), R(Len(v.list), 1))
        ELSE IF v.kind = "num" THEN v.num
        ELSE Zero

\* C21: load_crypto_whitelist returns no blacklisted symbol and, when the PnL
\* file is readable, no symbol whose expectancy is negative, the symbols
\* returned being in descending order of expectancy; every symbol returned
\* comes from the runtime whitelist when that is not empty and from the
\* configured whitelist otherwise.
C21_WhitelistFiltered ==
    (last.op = "load_crypto_whitelist")
        => LET wl == feed.loaded
           IN  /\ \A i \in 1..Len(wl) : wl[i] \notin BLACKLIST
               /\ feed.perf.exists
                    => /\ \A i \in 1..Len(wl) : RLe(Zero, C21_Mean(wl[i]))
                       /\ \A i \in 1..Len(wl), j \in 1..Len(wl) :
                             i < j => RLe(C21_Mean(wl[j]), C21_Mean(wl[i]))
               /\ \A i \in 1..Len(wl) :
                     InList(IF rw_file # <<>> THEN rw_file ELSE feed.wl, wl[i])
               /\ (rw_file # <<>> /\ ~feed.perf.exists)
                    => \A i \in 1..Len(rw_file) :
                          rw_file[i] \notin BLACKLIST => InList(wl, rw_file[i])

\* C21 witness: CCC (mean 1) comes before AAA (mean 5/6), BBB (mean -1) and the
\* blacklisted ZRO/USD are dropped
C21_Witness ==
    /\ last.op = "load_crypto_whitelist"
    /\ feed.wl = <<"CCC", "ZRO/USD", "BBB", "AAA">>
    /\ rw_file = <<"AAA", "BBB", "CCC">>
    /\ feed.loaded = <<"CCC", "AAA">>


RECURSIVE C24_Distinct(_, _)
\* the distinct non-blank symbols of syms after strip/upper, in order of first
\* appearance, behind those of seen
C24_Distinct(seen, syms) ==
    IF syms = <<>> THEN seen
    ELSE LET s == StripUpper(Head(syms))
         IN  C24_Distinct(IF s = "" \/ InList(seen, s) THEN seen ELSE Append(seen, s),
                          Tail(syms))

\* C24: the list update_runtime_whitelist(new_syms, max_symbols) returns is the
\* list it persisted, has no duplicates after strip/upper, has at most
\* max_symbols entries, and holds the new symbols in their given order before
\* the symbols persisted earlier.
C24_MergedList ==
    (last.op = "update_runtime_whitelist")
        => LET all == C24_Distinct(<<>>, feed.new_syms \o feed.existing)
           IN  /\ rw_file = feed.merged
               /\ \A i \in 1..Len(feed.merged), j \in 1..Len(feed.merged) :
                     i # j => feed.merged[i] # feed.merged[j]
               /\ \A i \in 1..Len(feed.merged) :
                     StripUpper(feed.merged[i]) = feed.merged[i] /\ feed.merged[i] # ""
               /\ Len(feed.merged) <= Len(all)
               /\ \A i \in 1..Len(feed.merged) : feed.merged[i] = all[i]
               /\ Len(feed.merged) <= feed.max_symbols


RECURSIVE C22_First(_)
\* the first value of q that is given
C22_First(q) ==
    IF Len(q) = 1 \/ Head(q) # Absent THEN Head(q) ELSE C22_First(Tail(q))

\* C22: the position a buy records takes each parameter from the meta, else
\* from the symbol's trailing override, else from the exits / trailing
\* configuration, else from the hard-coded default (the scanner broker has no
\* override level); with an empty meta and no override the stop, the target,
\* the breakeven trigger and the trailing percentage are the configured ones.
C22_ParamPrecedence ==
    (last.op = "buy" /\ last.ret = "ok")
        => LET pos   == positions[last.sym]
               m     == pos.meta
               o     == cfg.overrides[last.sym]
               price == last.arg
               core  == cfg.variant = "core"
           IN  /\ pos.stop = RMul(price, RSub(One, C22_First(
                      <<m.stop_loss_pct, cfg.stop_loss_pct,
                        IF core THEN R(15, 1000) ELSE R(6, 1000)>>)))
               /\ pos.tp_price = RMul(price, RAdd(One, C22_First(
                      <<m.take_profit_pct, cfg.take_profit_pct, R(6, 1000)>>)))
               /\ pos.breakeven_trigger_pct = C22_First(
                      <<m.breakeven_trigger_pct, IF core THEN o.breakeven_pct ELSE Absent,
                        cfg.breakeven_pct, R(3, 1000)>>)
               /\ pos.trailing_stop_pct = C22_First(
                      <<m.trailing_stop_pct, IF core THEN o.trail_pct ELSE Absent,
                        cfg.trail_pct, IF core THEN R(12, 1000) ELSE R(4, 1000)>>)
               /\ core => /\ pos.activate_profit_pct = C22_First(
                                 <<m.activate_profit_pct, o.activate_profit_pct,
                                   cfg.activate_profit_pct, Zero>>)
                          /\ pos.atr_trail_multiplier = C22_First(
                                 <<m.atr_trail_multiplier, o.atr_trail_multiplier,
                                   cfg.atr_trail_multiplier, One>>)
               /\ (m = EmptyMeta /\ o = NoOverride /\ cfg.stop_loss_pct # Absent
                     /\ cfg.take_profit_pct # Absent /\ cfg.breakeven_pct # Absent
                     /\ cfg.trail_pct # Absent)
                    => /\ pos.stop = RMul(price, RSub(One, cfg.stop_loss_pct))
                       /\ pos.tp_price = RMul(price, RAdd(One, cfg.take_profit_pct))
                       /\ pos.breakeven_trigger_pct = cfg.breakeven_pct
                       /\ pos.trailing_stop_pct = cfg.trail_pct

\* C22 witness: AAA bought with only the trailing percentages in the meta, under
\* an override for AAA: breakeven trigger and trailing percentage come from the
\* meta, activation and ATR multiple from the override, the stop from exits
C22_Witness ==
    /\ last.op = "buy" /\ last.ret = "ok" /\ last.sym = "AAA"
    /\ cfg = CfgOverride
    /\ positions["AAA"].meta = TrailOnlyMeta
    /\ positions["AAA"].breakeven_trigger_pct = R(3, 10)
    /\ positions["AAA"].activate_profit_pct = R(1, 10)
    /\ positions["AAA"].atr_trail_multiplier = R(2, 1)
    /\ positions["AAA"].stop = RMul(last.arg, R(4, 5))


\* C23: with zero fee and slippage and an empty meta, a buy that goes through
\* opens qty = stake_amount(symbol) / (stop_loss_pct * price) and debits
\* qty * price from the balance (the loss at the initial stop is the stake).
C23_RiskBasedSizing ==
    [][(/\ last'.op = "buy" /\ last'.ret = "ok"
        /\ cfg.variant = "core"
        /\ Get(cfg.fee_pct, Zero) = Zero /\ Get(cfg.slippage_pct, Zero) = Zero
        /\ positions'[last'.sym].meta = EmptyMeta)
          => /\ last'.qty = RDiv(StakeAmount(Ledger, last'.sym), RMul(BaseSl, last'.arg))
             /\ balance' = RSub(balance, RMul(last'.qty, last'.arg))]_vars


\* the multiplier the claim gives for the symbol of the last call
C25_M ==
    IF last.sym = "" THEN One
    ELSE IF RLt(Zero, symbol_pnl[last.sym]) THEN R(3, 2)
    ELSE IF RLt(symbol_pnl[last.sym], Zero) THEN R(1, 2)
    ELSE One

C26_StopRescale ==
    [][(last'.op = "buy" /\ last'.ret = "ok")
          => LET s     == positions'[last'.sym].meta.stop_loss_pct
                 sized == StakeBeforeRescale(Ledger, last'.sym)
                 debit == RSub(balance, balance')
             IN  (s # Absent)
                    => /\ RLt(Zero, s) => RMul(debit, s) = RMul(sized, cfg.stop_loss_pct)
                       /\ RLe(s, Zero) => debit = sized]_vars

\* C26 witness: a stop of 10% against the configured 20% doubles the stake of
\* 500 and empties the wallet
C26_Witness ==
    /\ last.op = "buy" /\ last.ret = "ok"
    /\ positions[last.sym].meta = TightMeta
    /\ hist.trades = 1
    /\ balance = Zero


\* the position of s after update_trailing(s, price), in the broker at hand
C27_Trailed(s, price) ==
    IF cfg.variant = "core" THEN TrailPosition(positions[s], price)
    ELSE ScanTrailPosition(positions[s], price)

\* C27: should_exit(sym, price) on an open position returns "tp" iff price >=
\* tp_price, and then leaves the position as it was; otherwise it applies
\* update_trailing and returns "sl_or_trail" iff price <= the updated stop, else
\* (False, ""); for a symbol without a position it returns "no_pos" and changes
\* nothing; it never removes a position.
C27_ShouldExit ==
    [][(last'.op = "should_exit")
          => LET s == last'.sym
                 p == last'.arg
             IN  /\ DOMAIN positions' = DOMAIN positions
                 /\ balance' = balance /\ disk' = disk /\ cooldowns' = cooldowns
                 /\ \A o \in DOMAIN positions \ {s} : positions'[o] = positions[o]
                 /\ s \notin DOMAIN positions
                      => last'.ret = "no_pos" /\ positions' = positions
                 /\ s \in DOMAIN positions
                      => /\ last'.ret = "tp" <=> RLe(positions[s].tp_price, p)
                         /\ last'.ret = "tp" => positions' = positions
                         /\ last'.ret # "tp"
                              => /\ positions'[s] = C27_Trailed(s, p)
                                 /\ last'.ret = "sl_or_trail"
                                        <=> RLe(p, positions'[s].stop)
                                 /\ last'.ret \in {"sl_or_trail", "hold"}]_vars

\* C27 witness: the core broker's position, bought at 12 with its stop trailed
\* above its entry and its peak at 14, is seen at 11 and is to be sold
C27_Witness ==
    /\ cfg.variant = "core"
    /\ last.op = "should_exit" /\ last.ret = "sl_or_trail" /\ last.arg = R(11, 1)
    /\ last.sym \in DOMAIN positions
    /\ positions[last.sym].entry = R(12, 1)
    /\ positions[last.sym].peak = R(14, 1)
    /\ RLt(R(12, 1), positions[last.sym].stop)


\* the step is a call of update_trailing on the open position of s, made
\* directly or by a should_exit that did not answer "tp"
C28_Updates(s) ==
    /\ s \in DOMAIN positions
    /\ last'.sym = s
    /\ \/ last'.op = "update_trailing"
       \/ last'.op = "should_exit" /\ last'.ret # "tp"

\* C28: in the core broker, while trail_active is false and the price observed
\* is below entry * (1 + activate_profit_pct), update_trailing changes only the
\* peak; trail_active becomes true at the first price observed at or above that
\* level, by such a call only, and stays true as long as the position lives (a
\* buy opens a new position).
C28_ActivationLatch ==
    [][(cfg.variant = "core")
          => \A s \in DOMAIN positions :
                LET pos == positions[s]
                    p   == last'.arg
                    thr == RMul(pos.entry, RAdd(One, pos.activate_profit_pct))
                    new == last'.op = "buy" /\ last'.ret = "ok" /\ last'.sym = s
                IN  /\ (C28_Updates(s) /\ ~pos.trail_active /\ RLt(p, thr))
                          => positions'[s] = [pos EXCEPT !.peak = RMax(pos.peak, p)]
                    /\ (C28_Updates(s) /\ ~pos.trail_active /\ RLe(thr, p))
                          => positions'[s].trail_active
                    /\ (s \in DOMAIN positions' /\ ~new)
                          => /\ pos.trail_active => positions'[s].trail_active
                             /\ (~pos.trail_active /\ positions'[s].trail_active)
                                   => C28_Updates(s) /\ RLe(thr, p)]_vars

\* C28 witness: a position entered at 10 that activates 30% above its entry has
\* been seen at 11, past its breakeven trigger of 10%: the peak is 11, the stop
\* is still 8 and the trailing is not active
C28_Witness ==
    /\ cfg.variant = "core"
    /\ last.op = "update_trailing" /\ last.arg = R(11, 1)
    /\ last.sym \in DOMAIN positions
    /\ positions[last.sym].meta = LateMeta
    /\ positions[last.sym].entry = R(10, 1)
    /\ positions[last.sym].peak = R(11, 1)
    /\ positions[last.sym].stop = R(8, 1)
    /\ ~positions[last.sym].trail_active


\* the step is a should_exit or update_trailing call that sees the open
\* position of s at or above entry * (1 + breakeven_trigger_pct) and does not
\* decide an exit
C29_SeenAtTrigger(s) ==
    /\ s \in DOMAIN positions
    /\ last'.sym = s
    /\ last'.op = "update_trailing" \/ (last'.op = "should_exit" /\ last'.ret = "hold")
    /\ RLe(RMul(positions[s].entry, RAdd(One, positions[s].breakeven_trigger_pct)),
           last'.arg)

\* a position of s lives through the step with a stop at or above its entry
C29_Kept(s) ==
    /\ s \in DOMAIN positions /\ s \in DOMAIN positions'
    /\ ~(last'.op = "buy" /\ last'.ret = "ok" /\ last'.sym = s)
    /\ RLe(positions[s].entry, positions[s].stop)

\* C29: after a should_exit / update_trailing call that sees a price at or
\* above entry * (1 + breakeven_trigger_pct) without exiting, the stop is at or
\* above the entry, whatever activate_profit_pct and breakeven_trigger_pct are,
\* and it stays there for the rest of the position's life.
C29_BreakevenRatchet ==
    [][\A s \in Symbols :
          /\ C29_SeenAtTrigger(s) => RLe(positions'[s].entry, positions'[s].stop)
          /\ C29_Kept(s) => RLe(positions'[s].entry, positions'[s].stop)]_vars

\* C29 as amended: the same once the trailing is active, that is when the
\* position's trail_active is set by that call or an earlier one (the scanner
\* broker has no activation and the ratchet always applies there).
C29_BreakevenOnceActive ==
    [][\A s \in Symbols :
          /\ (C29_SeenAtTrigger(s)
                /\ (cfg.variant = "core" => positions'[s].trail_active))
                => RLe(positions'[s].entry, positions'[s].stop)
          /\ C29_Kept(s) => RLe(positions'[s].entry, positions'[s].stop)]_vars

\* C29 witness: the core broker's position entered at 10 with a stop of 8 and
\* a trail of 2/15 has been seen at 11, its breakeven trigger: the stop is the
\* entry itself
C29_Witness ==
    /\ cfg.variant = "core"
    /\ last.op \in {"update_trailing", "should_exit"} /\ last.arg = R(11, 1)
    /\ last.sym \in DOMAIN positions
    /\ positions[last.sym].meta = EmptyMeta
    /\ positions[last.sym].entry = R(10, 1)
    /\ positions[last.sym].peak = R(11, 1)
    /\ positions[last.sym].stop = R(10, 1)
    /\ positions[last.sym].trail_active


\* the trading loop has just sold a position on an exit decision taken with
\* the position's stop at or above its entry
C30_ProtectedExit ==
    /\ last.op = "loop_exit" /\ last.ret \in {"tp", "sl_or_trail"}
    /\ hist.closed.sym = last.sym
    /\ RLe(hist.closed.entry, hist.closed.stop)

\* C30: once a position's stop has been raised to its entry or above, the sell
\* that follows a should_exit exit decision realizes a PnL >= 0, whatever the
\* later prices and the fee and slippage are.
C30_NeverClosedAtLoss ==
    C30_ProtectedExit => RLe(Zero, last.pnl)

\* C30 as amended: with the stop at or above the entry, should_exit holds the
\* position only at prices above the stop, hence above the entry; the sell
\* that follows an exit decision is made at the price observed and realizes
\* qty * (price * (1 - fee - slippage) - entry), which is >= 0 exactly when
\* that effective price is at or above the entry.
C30_ExitAtObservedPrice ==
    LET eff == RMul(last.arg, RSub(RSub(One, Get(cfg.slippage_pct, Zero)),
                                   Get(cfg.fee_pct, Zero)))
    IN  /\ (/\ last.op = "loop_exit" /\ last.ret = "hold"
            /\ RLe(positions[last.sym].entry, positions[last.sym].stop))
              => /\ RLt(positions[last.sym].stop, last.arg)
                 /\ RLt(positions[last.sym].entry, last.arg)
        /\ C30_ProtectedExit
              => /\ last.pnl = RMul(hist.closed.qty, RSub(eff, hist.closed.entry))
                 /\ RLe(Zero, last.pnl) <=> RLe(hist.closed.entry, eff)

\* C30 witness: a position entered at 10 whose stop had been trailed above 12
\* is seen at 8 and sold there, at a loss
C30_Witness ==
    /\ C30_ProtectedExit
    /\ last.ret = "sl_or_trail" /\ last.arg = R(8, 1)
    /\ hist.closed.entry = R(10, 1)
    /\ RLt(R(12, 1), hist.closed.stop)
    /\ RLt(last.pnl, Zero)


\* C31: after buy, sell, should_exit and update_trailing return, the files
\* hold the ledger: a broker constructed at once reloads the same balance,
\* counters and positions, with each position's stop, peak and trail_active.
C31_PersistedIsLedger ==
    (\/ last.op \in {"buy", "sell"} /\ last.ret = "ok"
     \/ last.op \in {"should_exit", "update_trailing"})
        => Construct(disk, rw_file) = Ledger


\* C32: a broker constructed while any of its six files is missing or
\* unparsable takes the default for that component (dry_run_wallet, empty
\* mapping, zero counter dated today) and the persisted value for every
\* component whose file is readable.
C32_DefaultPerFile ==
    [][last'.op = "construct" =>
        LET st     == last'.files
            wallet == Get(cfg.dry_run_wallet, R(1000, 1))
            reset  == cfg.reset_balance \/ cfg.top_reset_balance
            today  == now \div DayLen
        IN  /\ balance' = IF st["balance"] = "ok" /\ ~reset THEN disk.balance ELSE wallet
            /\ positions' = IF st["positions"] = "ok" THEN disk.positions ELSE NoPositions
            /\ \A s \in Symbols :
                  /\ cooldowns'[s] = IF st["cooldowns"] = "ok" THEN disk.cooldowns[s] ELSE 0
                  /\ symbol_pnl'[s] = IF st["symbol_pnl"] = "ok" THEN disk.symbol_pnl[s]
                                      ELSE Zero
            /\ <<daily_trades', trade_day'>> =
                  IF st["trade_count"] = "ok"
                  THEN <<disk.trade_count.count, disk.trade_count.day>> ELSE <<0, today>>
            /\ <<daily_pnl', pnl_day'>> =
                  IF st["daily_pnl"] = "ok"
                  THEN <<disk.daily_pnl.pnl, disk.daily_pnl.day>> ELSE <<Zero, today>>
    ]_vars

\* C32 witness: a broker that bought and sold yesterday is constructed today
\* without its trade count file: the count is zero and dated today, while the
\* balance, the cooldown and the realized PnL are the persisted ones
C32_Witness ==
    /\ last.op = "construct"
    /\ last.files = [AllOk EXCEPT !["trade_count"] = "missing"]
    /\ now \div DayLen > StartTime \div DayLen
    /\ daily_trades = 0 /\ trade_day = now \div DayLen
    /\ pnl_day = StartTime \div DayLen
    /\ symbol_pnl["AAA"] = R(100, 1) /\ daily_pnl = R(100, 1)
    /\ balance = R(1100, 1)
    /\ cooldowns["AAA"] = StartTime


\* C33: generate_signal returns BUY iff the series has at least 60 bars, the
\* ATR-band, average-volume, configured ADX and volume-confirmation gates
\* pass, trend_up holds, macd_flip or breakout holds, and the clamped score
\* is at least buy_score_threshold; in every other case it returns HOLD.
C33_BuyIff ==
    LET df == strat.df
        c  == strat.scfg
        gates == /\ RLe(Get(c.min_atr_pct, R(1, 500)), df.atr_pct)
                 /\ RLe(df.atr_pct, Get(c.max_atr_pct, R(3, 50)))
                 /\ ~RLt(df.avg_vol, Get(c.min_avg_volume, Zero))
                 /\ (c.adx_period \notin {Absent, Zero} /\ c.min_adx \notin {Absent, Zero})
                        => ~RLt(df.adx, c.min_adx)
                 /\ df.vol_ma # Absent /\ RLt(RMul(df.vol_ma, R(6, 5)), df.volume)
        trend_up  == /\ RLt(df.ema200, df.ema50) /\ RLt(df.prev_ema50, df.ema50)
                     /\ RLe(df.prev_ema200, df.ema200)
        macd_flip == RLe(df.prev_macd_hist, Zero) /\ RLt(Zero, df.macd_hist)
        breakout  == df.hh # Absent /\ RLt(RMul(df.hh, R(1001, 1000)), df.close)
        all == /\ df.len >= 60
               /\ gates
               /\ trend_up
               /\ macd_flip \/ breakout
               /\ RLe(Get(c.buy_score_threshold, R(3, 2)), Score(df))
    IN  (strat.sig # NoSignal)
            => /\ strat.sig.signal = "BUY" <=> all
               /\ strat.sig.signal = "HOLD" <=> ~all

\* C33 witness: a BUY on a breakout alone (the MACD histogram was already
\* positive) with a score of 1.4 against a threshold of 1
C33_Witness ==
    /\ strat.sig.signal = "BUY"
    /\ strat.df.prev_macd_hist = R(1, 1)
    /\ strat.df.hh = R(99, 1)
    /\ strat.scfg.buy_score_threshold = One
    /\ strat.sig.score = R(7, 5)

\* C34: when an iteration of the trading loop ends, no open position with a
\* price in that iteration is at or below its stop or at or above its
\* take-profit: should_exit was evaluated for every open position, also for
\* one whose symbol has left the active whitelist, and the position was sold.
C34_ExitsEveryPosition ==
    last.op = "loop_sleep"
        => \A s \in DOMAIN positions :
              loop.market[s] # None
                  => /\ RLt(positions[s].stop, loop.market[s])
                     /\ RLt(loop.market[s], positions[s].tp_price)

\* C35: a BUY signal that the loop hands to buy with the risk gates open
\* opens a position, whichever exit and trailing keys the configuration
\* lacks, and its stop, take-profit and trailing parameters are those the
\* broker resolves when the meta leaves them out; nothing is raised.
C35_MissingKeysNotFatal ==
    [][(last'.op = "loop_symbol" /\ last'.ret \in {"bought", "buy_TypeError"})
          => LET sym == last'.sym
                 o   == Buy(Ledger, sym, last'.arg, EmptyMeta)
             IN  /\ last'.ret = "bought"
                 /\ loop'.pc # "dead"
                 /\ sym \in DOMAIN positions'
                 /\ positions'[sym].stop = o.L.positions[sym].stop
                 /\ positions'[sym].tp_price = o.L.positions[sym].tp_price
                 /\ positions'[sym].breakeven_trigger_pct
                        = o.L.positions[sym].breakeven_trigger_pct
                 /\ positions'[sym].trailing_stop_pct
                        = o.L.positions[sym].trailing_stop_pct
                 /\ positions'[sym].activate_profit_pct
                        = o.L.positions[sym].activate_profit_pct]_vars

\* C36: the position the trading loop opens for a BUY signal has its stop at
\* entry * (1 - sl_pct) and its take-profit at entry * (1 + tp_pct), with
\* sl_pct and tp_pct those of the signal.
C36_SignalHintsReachBroker ==
    (last.op = "loop_symbol" /\ last.ret = "bought")
        => LET pos == positions[last.sym]
           IN  /\ loop.sig.signal = "BUY"
               /\ pos.stop = RMul(pos.entry, RSub(One, loop.sig.sl_pct))
               /\ pos.tp_price = RMul(pos.entry, RAdd(One, loop.sig.tp_pct))

RECURSIVE C37_Sum(_, _)
\* the sum of the amounts f holds for the symbols of S
C37_Sum(f, S) ==
    IF S = {} THEN Zero
    ELSE LET s == CHOOSE x \in S : TRUE
         IN  RAdd(f[s], C37_Sum(f, S \ {s}))

\* C37: the balance plus the cost (qty * entry) of the open positions equals
\* the starting wallet plus the realized PnL recorded over all symbols, in
\* every state; with no position open the balance is the wallet plus the
\* recorded PnL.
C37_CashConserved ==
    RAdd(balance,
         C37_Sum([s \in DOMAIN positions |-> RMul(positions[s].qty, positions[s].entry)],
                 DOMAIN positions))
        = RAdd(Get(cfg.dry_run_wallet, R(1000, 1)), C37_Sum(symbol_pnl, Symbols))

\* what ledger L holds of persisted file f
C38_Part(L, f) ==
    CASE f = "balance"     -> <<L.balance>>
      [] f = "positions"   -> <<L.positions>>
      [] f = "cooldowns"   -> <<L.cooldowns>>
      [] f = "symbol_pnl"  -> <<L.symbol_pnl>>
      [] f = "trade_count" -> <<L.daily_trades, L.trade_day>>
      [] f = "daily_pnl"   -> <<L.daily_pnl, L.pnl_day>>

\* the ledger an uninterrupted run of the operation of step last leaves
C38_After(L, call) ==
    IF call.op = "buy_crash" THEN Buy(L, call.sym, call.arg, EmptyMeta).L
    ELSE Sell(L, call.sym, call.arg).L

C39_Serial(f0, sym) ==
    LET Update(f) == Merge(<<>>, feed.new_syms \o f, feed.max_symbols)
    IN  IF feed.new_syms = <<>> THEN {RemoveFirst(f0, sym)}
        ELSE {RemoveFirst(Update(f0), sym), Update(RemoveFirst(f0, sym)),
              Update(RemoveFirst(Update(f0), sym))}

\* C39: whenever the eviction inside buy and the updates of the trending
\* thread have all returned, the runtime whitelist file holds what they leave
\* when run in some serial order (neither the merged symbols nor the eviction
\* is lost), and update_runtime_whitelist never reads the file while it is
\* partially written.
C39_WritersLinearizable ==
    /\ (loop.pc = "boot" /\ loop.evicted # "" /\ feed.pc = "idle")
          => rw_file \in C39_Serial(<<"AAA", "BBB">>, loop.evicted)
    /\ ~(last.op = "write_tmp" /\ rw_file = Torn)

====
